---- MODULE Spec2Model ----
(***************************************************************************)
(* A model of the mesh <-> chat bridge runtime of src/mesh_bot.py          *)
(* (class MeshTelegramBot): the byte-budgeted segmenter, the correlation   *)
(* store msg_mapping, the auto-reply policy, the outbound confirmation     *)
(* workflow and the connection lifecycle with its three execution          *)
(* contexts (control loop, chat handlers, mesh callbacks).                 *)
(*                                                                         *)
(* Texts are sequences of one-character strings.  "U" stands for any code  *)
(* point >= 128 (two accounted bytes), "A" is the upper-case form of "a",  *)
(* " " is whitespace; every other character is ASCII and caseless.         *)
(***************************************************************************)
EXTENDS Integers, Sequences, FiniteSets, TLC

VARIABLES
    \* ---- segmenter run (one call of _split_text_by_bytes)
    seg_text,        \* the text argument
    seg_max_bytes,   \* the max_bytes argument
    seg_parts,       \* the returned list of chunks
    seg_pc,          \* "call" before the call, "done" after it returned
    \* ---- correlation store
    msg_mapping,     \* the OrderedDict, as the sequence of its items in order
    tg_next,         \* the message id the chat service gives to the next post
    rec_hist,        \* history: the mesh ids recorded so far, in order
    lookup_result,   \* what the last lookup returned
    msg_mapping_lock, \* the context that holds msg_mapping_lock, or "free"
    st_pc,           \* where each context stands in a store operation
    \* ---- configuration (config.json as loaded)
    config_keywords,     \* config['keywords'] as written in the file
    keywords,            \* self.keywords
    private_node_names,  \* self.private_node_names
    hop_filter_min,      \* self.hop_filter_min (NoHop = None)
    hop_filter_max,      \* self.hop_filter_max
    telegram_chat_id,    \* self.telegram_chat_id (None = not configured)
    default_channel,     \* self.default_channel (None = not configured)
    \* ---- mesh connection
    interface,           \* self.interface: None or the handle of a connection
    is_connected,        \* self.is_connected
    \* ---- bridge
    node_map,            \* self.node_map: lower-case short name -> node id
    h_pc,                \* "idle", or "done" right after a handler has run
    h_op,                \* the handler that ran last and its input
    mesh_sent,           \* the sendText calls that handler made, in order
    chat_posts,          \* the chat posts that handler made, in order
    \* ---- chat side
    pending_messages,    \* self.pending_messages: chat id -> staged message
    \* ---- connection lifecycle
    manual_disconnect,     \* self.manual_disconnect
    reconnect_in_progress, \* self.reconnect_in_progress
    pc,                    \* where each thread stands in the lifecycle code
    link_ok,               \* the socket of self.interface still works
    leaked,                \* connections opened, never closed, no longer referenced
    receive_listeners,     \* the listeners subscribed to "meshtastic.receive"
    endpoint_up,           \* the mesh endpoint accepts connections
    since_check,           \* seconds since last_connection_check, saturating
    since_attempt,         \* seconds since last_reconnect_attempt, saturating
    \* ---- chat delivery with retry (one call of _send_with_retry)
    retry_outcomes,        \* what each successive bot.send_message call does
    retry_result           \* the calls made, the waits slept and how the call ended

segVars == <<seg_text, seg_max_bytes, seg_parts, seg_pc>>
storeVars == <<msg_mapping, tg_next, rec_hist, lookup_result>>
lockVars == <<msg_mapping_lock, st_pc>>
cfgVars == <<config_keywords, keywords, private_node_names, hop_filter_min,
             hop_filter_max, telegram_chat_id, default_channel>>
\* the configuration no handler writes
cfgFixed == <<config_keywords, keywords, hop_filter_min, hop_filter_max, default_channel>>
connVars == <<interface, is_connected>>
bridgeVars == <<node_map, h_pc, h_op, mesh_sent, chat_posts>>
chatVars == <<pending_messages>>
lifeVars == <<manual_disconnect, reconnect_in_progress, pc, link_ok, leaked, receive_listeners,
              endpoint_up, since_check, since_attempt>>

retryVars == <<retry_outcomes, retry_result>>

vars == <<segVars, storeVars, lockVars, cfgVars, connVars, bridgeVars, chatVars, lifeVars,
          retryVars>>

\* what an action of one component leaves alone
notSegVars == <<storeVars, lockVars, cfgVars, connVars, bridgeVars, chatVars, lifeVars, retryVars>>
notStoreVars == <<segVars, lockVars, cfgVars, connVars, bridgeVars, chatVars, lifeVars, retryVars>>
notLifeVars == <<segVars, storeVars, lockVars, cfgVars, bridgeVars, chatVars, retryVars>>
notStoreLockVars == <<segVars, cfgVars, connVars, bridgeVars, chatVars, lifeVars, retryVars>>
notRetryVars == <<segVars, storeVars, lockVars, cfgVars, connVars, bridgeVars, chatVars, lifeVars>>

\* None, and every falsy id (0): the code tests ids by truth value
None == 0

\* ------------------------------------------------------------------------
\* Bounds of the model
\* ------------------------------------------------------------------------
MaxTextLen == 7
\* the longest text made of one word (no whitespace) given to the segmenter
MaxWordLen == 14
\* texts padded with whitespace: the longest core text and the longest run of
\* spaces before and after it
MaxCoreLen == 4
MaxPad == 13
\* The store's capacity, scaled down from the program's 1000 (line 42) so that
\* eviction is reached; every other size of the store model follows from it.
MAX_MAPPING_SIZE == 2
MaxKwTextLen == 3
MaxHop == 2
\* the health-check period in seconds (line 50), scaled down from 10
CONNECTION_CHECK_INTERVAL == 2
\* since_attempt counts seconds up to this many; the backoff gate treats
\* every longer wait alike
MaxElapsed == 2
\* the longest time since the last reconnect attempt, in seconds, at which a
\* call of _attempt_reconnect is examined
MaxIdle == 720

\* leaked connections are counted up to this many
MaxLeaked == 1

\* ------------------------------------------------------------------------
\* Characters and strings
\* ------------------------------------------------------------------------
WideChars == {"U"}

\* ord(char) < 128 counts 1, everything else 2 (lines 309-312, 348)
CharBytes(c) == IF c \in WideChars THEN 2 ELSE 1

RECURSIVE calculate_text_bytes(_)
calculate_text_bytes(text) ==
    IF text = <<>> THEN 0
    ELSE CharBytes(Head(text)) + calculate_text_bytes(Tail(text))

IsSpace(c) == c = " "

\* str.split() with no argument: maximal runs of non-whitespace characters
RECURSIVE SplitFrom(_, _, _)
SplitFrom(text, cur, acc) ==
    IF text = <<>>
    THEN (IF cur = <<>> THEN acc ELSE Append(acc, cur))
    ELSE IF IsSpace(Head(text))
         THEN SplitFrom(Tail(text), <<>>, IF cur = <<>> THEN acc ELSE Append(acc, cur))
         ELSE SplitFrom(Tail(text), Append(cur, Head(text)), acc)

StrSplit(text) == SplitFrom(text, <<>>, <<>>)

\* ' '.join(words)
RECURSIVE JoinSpace(_)
JoinSpace(words) ==
    IF words = <<>> THEN <<>>
    ELSE IF Len(words) = 1 THEN Head(words)
    ELSE Head(words) \o <<" ">> \o JoinSpace(Tail(words))

\* str(n) for n >= 0: the decimal digits
DigitChar(d) ==
    CASE d = 0 -> "0" [] d = 1 -> "1" [] d = 2 -> "2" [] d = 3 -> "3" [] d = 4 -> "4"
      [] d = 5 -> "5" [] d = 6 -> "6" [] d = 7 -> "7" [] d = 8 -> "8" [] d = 9 -> "9"

RECURSIVE IntToStr(_)
IntToStr(n) ==
    IF n < 10 THEN <<DigitChar(n)>>
    ELSE Append(IntToStr(n \div 10), DigitChar(n % 10))

\* ------------------------------------------------------------------------
\* Segmenter: _split_text_by_bytes (lines 315-372)
\* ------------------------------------------------------------------------
\* the byte budget of one mesh message (line 45), scaled down from 200 so
\* that texts of a few characters need several chunks
MAX_BYTES_PER_MESSAGE == 12
marker_reserve == 10

\* the character loop with the fit test taken strictly (char_bytes + char_byte
\* < effective_max)
HardSplitCharStrict(st, char, effective_max) ==
    LET char_byte == CharBytes(char) IN
    IF st.char_bytes + char_byte < effective_max
    THEN [st EXCEPT !.char_part = Append(@, char), !.char_bytes = @ + char_byte]
    ELSE [parts |-> IF st.char_part # <<>> THEN Append(st.parts, st.char_part)
                    ELSE st.parts,
          char_part |-> <<char>>,
          char_bytes |-> char_byte]

\* The inner loop over the characters of an oversized word (lines 345-356).
\* st = [parts, char_part, char_bytes]
HardSplitChar(st, char, effective_max) ==
    LET char_byte == CharBytes(char) IN
    IF st.char_bytes + char_byte <= effective_max
    THEN [st EXCEPT !.char_part = Append(@, char), !.char_bytes = @ + char_byte]
    ELSE [parts |-> IF st.char_part # <<>> THEN Append(st.parts, st.char_part)
                    ELSE st.parts,
          char_part |-> <<char>>,
          char_bytes |-> char_byte]

RECURSIVE HardSplitLoop(_, _, _)
HardSplitLoop(st, word, effective_max) ==
    IF word = <<>> THEN st
    ELSE HardSplitLoop(HardSplitChar(st, Head(word), effective_max),
                       Tail(word), effective_max)

\* the word loop that starts the next chunk empty when a word does not fit
PackWordDropsOverflow(st, word, effective_max) ==
    LET word_bytes == calculate_text_bytes(word)
        space_bytes == IF st.current_part # <<>> THEN 1 ELSE 0
    IN
    IF st.current_bytes + word_bytes + space_bytes <= effective_max
    THEN [st EXCEPT !.current_part = Append(@, word),
                    !.current_bytes = @ + word_bytes + space_bytes]
    ELSE IF st.current_part # <<>>
         THEN [parts |-> Append(st.parts, JoinSpace(st.current_part)),
               current_part |-> <<>>,
               current_bytes |-> 0]
         ELSE LET hs == HardSplitLoop([parts |-> st.parts, char_part |-> <<>>,
                                       char_bytes |-> 0], word, effective_max)
              IN IF hs.char_part # <<>>
                 THEN [parts |-> hs.parts,
                       current_part |-> <<hs.char_part>>,
                       current_bytes |-> calculate_text_bytes(hs.char_part)]
                 ELSE [st EXCEPT !.parts = hs.parts]

\* One iteration of "for word in words" (lines 332-359).
\* st = [parts, current_part, current_bytes]
PackWord(st, word, effective_max) ==
    LET word_bytes == calculate_text_bytes(word)
        space_bytes == IF st.current_part # <<>> THEN 1 ELSE 0
    IN
    IF st.current_bytes + word_bytes + space_bytes <= effective_max
    THEN [st EXCEPT !.current_part = Append(@, word),
                    !.current_bytes = @ + word_bytes + space_bytes]
    ELSE IF st.current_part # <<>>
         THEN [parts |-> Append(st.parts, JoinSpace(st.current_part)),
               current_part |-> <<word>>,
               current_bytes |-> word_bytes]
         ELSE LET hs == HardSplitLoop([parts |-> st.parts, char_part |-> <<>>,
                                       char_bytes |-> 0], word, effective_max)
              IN IF hs.char_part # <<>>
                 THEN [parts |-> hs.parts,
                       current_part |-> <<hs.char_part>>,
                       current_bytes |-> calculate_text_bytes(hs.char_part)]
                 ELSE [st EXCEPT !.parts = hs.parts]

RECURSIVE PackWords(_, _, _)
PackWords(st, words, effective_max) ==
    IF words = <<>> THEN st
    ELSE PackWords(PackWord(st, Head(words), effective_max), Tail(words), effective_max)

\* f"{part} [{i}/{total_parts}]" (line 368)
Marker(i, total_parts) ==
    <<" ", "[">> \o IntToStr(i) \o <<"/">> \o IntToStr(total_parts) \o <<"]">>

\* the split that marks its chunks whenever there is any (len(parts) > 0)
split_text_by_bytes_marks_single(text, max_bytes) ==
    IF text = <<>> THEN <<>>
    ELSE IF calculate_text_bytes(text) <= max_bytes THEN <<text>>
    ELSE LET effective_max == max_bytes - marker_reserve
             st == PackWords([parts |-> <<>>, current_part |-> <<>>, current_bytes |-> 0],
                             StrSplit(text), effective_max)
             parts == IF st.current_part # <<>>
                      THEN Append(st.parts, JoinSpace(st.current_part))
                      ELSE st.parts
         IN IF Len(parts) > 0
            THEN [i \in 1..Len(parts) |-> parts[i] \o Marker(i, Len(parts))]
            ELSE parts

\* the split with the single-chunk test taken strictly (total_bytes < max_bytes)
split_text_by_bytes_strict(text, max_bytes) ==
    IF text = <<>> THEN <<>>
    ELSE IF calculate_text_bytes(text) < max_bytes THEN <<text>>
    ELSE LET effective_max == max_bytes - marker_reserve
             st == PackWords([parts |-> <<>>, current_part |-> <<>>, current_bytes |-> 0],
                             StrSplit(text), effective_max)
             parts == IF st.current_part # <<>>
                      THEN Append(st.parts, JoinSpace(st.current_part))
                      ELSE st.parts
         IN IF Len(parts) > 1
            THEN [i \in 1..Len(parts) |-> parts[i] \o Marker(i, Len(parts))]
            ELSE parts

split_text_by_bytes(text, max_bytes) ==
    IF text = <<>> THEN <<>>
    ELSE IF calculate_text_bytes(text) <= max_bytes THEN <<text>>
    ELSE LET effective_max == max_bytes - marker_reserve
             st == PackWords([parts |-> <<>>, current_part |-> <<>>, current_bytes |-> 0],
                             StrSplit(text), effective_max)
             parts == IF st.current_part # <<>>
                      THEN Append(st.parts, JoinSpace(st.current_part))
                      ELSE st.parts
         IN IF Len(parts) > 1
            THEN [i \in 1..Len(parts) |-> parts[i] \o Marker(i, Len(parts))]
            ELSE parts

\* ---- the segmenter's specification: every text and budget of the bounds
SegChars == {"a", "U", " "}
SegTexts == UNION {[1..n -> SegChars] : n \in 0..MaxTextLen}
\* Budgets: the caller's MAX_BYTES_PER_MESSAGE and the next one; each leaves an
\* effective budget (max_bytes - 10) of at least 2, so that any single
\* character fits a chunk.
SegBudgets == {MAX_BYTES_PER_MESSAGE, MAX_BYTES_PER_MESSAGE + 1}

SegInit ==
    /\ seg_text \in SegTexts
    /\ seg_max_bytes \in SegBudgets
    /\ seg_parts = <<>>
    /\ seg_pc = "call"

SegIdle ==
    /\ seg_text = <<>>
    /\ seg_max_bytes = MAX_BYTES_PER_MESSAGE
    /\ seg_parts = <<>>
    /\ seg_pc = "call"

\* ---- texts made of a single word: long enough for a word of 1-byte
\* characters alone to exceed max_bytes
WordChars == {"a", "U"}
SegWords == UNION {[1..n -> WordChars] : n \in 1..MaxWordLen}

SegWordInit ==
    /\ seg_text \in SegWords
    /\ seg_max_bytes \in SegBudgets
    /\ seg_parts = <<>>
    /\ seg_pc = "call"

\* ---- texts padded with whitespace: a short text with a run of spaces before
\* and after it, long enough for the padding alone to exceed max_bytes
Spaces(n) == [k \in 1..n |-> " "]
CoreTexts == UNION {[1..n -> SegChars] : n \in 0..MaxCoreLen}
SegPadded == {Spaces(l) \o core \o Spaces(t) : core \in CoreTexts, l \in {0, 1}, t \in 0..MaxPad}

SegPadInit ==
    /\ seg_text \in SegPadded
    /\ seg_max_bytes \in SegBudgets
    /\ seg_parts = <<>>
    /\ seg_pc = "call"

SplitCall ==
    /\ seg_pc = "call"
    /\ seg_parts' = split_text_by_bytes(seg_text, seg_max_bytes)
    /\ seg_pc' = "done"
    /\ UNCHANGED <<seg_text, seg_max_bytes>>
    /\ UNCHANGED notSegVars

\* ------------------------------------------------------------------------
\* Correlation store: msg_mapping (lines 40-42, 565-571, 1268-1275, 1303-1312,
\* 1329-1331).  Every operation below runs inside "with msg_mapping_lock".
\* ------------------------------------------------------------------------
MeshIds == 1..(MAX_MAPPING_SIZE + 1)
\* a handler of the bridge starts only while the chat has given out fewer ids
MaxBridgePosts == 2
MaxPosts == MAX_MAPPING_SIZE + 2

HasKey(mapping, mid) == \E i \in 1..Len(mapping) : mapping[i].mid = mid

\* msg_mapping.get(mid, {}): the item, or the empty dict (all fields None)
NoInfo == [mid |-> None, telegram_msg_id |-> None, node_id |-> None, is_private |-> FALSE]
MappingGet(mapping, mid) ==
    IF HasKey(mapping, mid)
    THEN mapping[CHOOSE i \in 1..Len(mapping) : mapping[i].mid = mid]
    ELSE NoInfo

\* len(msg_mapping) >= MAX_MAPPING_SIZE (line 1305)
NeedsEvictionOffByOne(mapping) == Len(mapping) > MAX_MAPPING_SIZE
NeedsEviction(mapping) == Len(mapping) >= MAX_MAPPING_SIZE

\* msg_mapping.popitem(last=False) (line 1306)
PopItemLast(mapping) == SubSeq(mapping, 1, Len(mapping) - 1)
PopItemFirst(mapping) == Tail(mapping)

\* msg_mapping[mid] = {...}: a new key goes last, an existing key keeps its place
SetItem(mapping, rec) ==
    IF HasKey(mapping, rec.mid)
    THEN [i \in 1..Len(mapping) |-> IF mapping[i].mid = rec.mid THEN rec ELSE mapping[i]]
    ELSE Append(mapping, rec)

\* lines 1303-1312, for a truthy meshtastic_msg_id
StoreRecord(mapping, mid, tgid, node_id, is_private) ==
    SetItem(IF NeedsEviction(mapping) THEN PopItemFirst(mapping) ELSE mapping,
            [mid |-> mid, telegram_msg_id |-> tgid,
             node_id |-> IF is_private THEN node_id ELSE None,
             is_private |-> is_private])

\* _find_reply_info (lines 565-571): the first item in order with that mirror id
find_reply_info_by_mesh_id(mapping, telegram_parent_id) ==
    LET info == MappingGet(mapping, telegram_parent_id)
    IN [mid |-> info.mid, node_id |-> info.node_id, is_private |-> info.is_private]
find_reply_info(mapping, telegram_parent_id) ==
    IF \E i \in 1..Len(mapping) : mapping[i].telegram_msg_id = telegram_parent_id
    THEN LET i == CHOOSE k \in 1..Len(mapping) :
                      /\ mapping[k].telegram_msg_id = telegram_parent_id
                      /\ \A j \in 1..(k - 1) : mapping[j].telegram_msg_id # telegram_parent_id
         IN [mid |-> mapping[i].mid, node_id |-> mapping[i].node_id,
             is_private |-> mapping[i].is_private]
    ELSE [mid |-> None, node_id |-> None, is_private |-> FALSE]

NoLookup == [kind |-> "none", key |-> None, mid |-> None, node_id |-> None,
             is_private |-> FALSE, telegram_msg_id |-> None]

\* the contexts that use the store: the mesh receive callback and the chat
\* handlers
Contexts == {"mesh", "chat"}

StoreInit ==
    /\ msg_mapping = <<>>
    /\ tg_next = 1
    /\ rec_hist = <<>>
    /\ lookup_result = NoLookup
    /\ msg_mapping_lock = "free"
    /\ st_pc = [c \in Contexts |-> "idle"]

\* The mirror half of _forward_to_telegram (lines 1266-1312): post to chat
\* (delivered or not), then record the mapping when the mesh id is truthy.
ForwardToTelegramStore(mid, node_id, is_private, delivered) ==
    /\ tg_next <= MaxPosts
    /\ IF delivered
       THEN /\ tg_next' = tg_next + 1
            /\ IF mid # None
               THEN /\ msg_mapping' = StoreRecord(msg_mapping, mid, tg_next, node_id, is_private)
                    /\ rec_hist' = Append(rec_hist, mid)
               ELSE UNCHANGED <<msg_mapping, rec_hist>>
       ELSE UNCHANGED <<msg_mapping, rec_hist, tg_next>>
    /\ UNCHANGED lookup_result

\* _find_reply_info(telegram_parent_id), called by the chat handler
FindReplyInfo(tid) ==
    /\ lookup_result' = [kind |-> "mirror", key |-> tid, telegram_msg_id |-> tid]
                          @@ find_reply_info(msg_mapping, tid)
    /\ UNCHANGED <<msg_mapping, tg_next, rec_hist>>

\* msg_mapping.get(id, {}).get('telegram_msg_id') (lines 1269-1271, 1329-1331)
LookupByMeshId(mid) ==
    /\ lookup_result' = [kind |-> "mesh", key |-> mid]
                          @@ MappingGet(msg_mapping, mid)
    /\ UNCHANGED <<msg_mapping, tg_next, rec_hist>>

\* ---- the store operations step by step, under msg_mapping_lock (line 41)
\* the labels at which a context is inside a `with msg_mapping_lock:` block
InStoreOp == {"get", "ins_pop", "ins_set", "scan", "unlock"}

StGoto(c, label) == st_pc' = [st_pc EXCEPT ![c] = label]

\* the labels at which a context waits for the lock, and the first statement
\* of the block it then enters
AtLock == {"lock_get", "lock_ins", "lock_scan"}
Locked(label) ==
    CASE label = "lock_get" -> "get"
      [] label = "lock_ins" -> "ins_pop"
      [] label = "lock_scan" -> "scan"

\* a context arrives at a `with msg_mapping_lock:` statement: the receive
\* callback at a lookup by mesh id (lines 1269, 1329) or at the insert (line
\* 1304), a chat handler at _find_reply_info (line 567)
StBegin(c, op) ==
    /\ st_pc[c] = "idle"
    /\ op \in (IF c = "mesh" THEN {"lock_get", "lock_ins"} ELSE {"lock_scan"})
    /\ op = "lock_ins" => tg_next <= MaxPosts
    /\ StGoto(c, op)
    /\ UNCHANGED <<storeVars, msg_mapping_lock>>

\* a _find_reply_info that scans the store without taking the lock
StAcquireExceptScan(c) ==
    /\ st_pc[c] \in AtLock
    /\ IF st_pc[c] = "lock_scan"
       THEN UNCHANGED msg_mapping_lock
       ELSE msg_mapping_lock = "free" /\ msg_mapping_lock' = c
    /\ StGoto(c, Locked(st_pc[c]))
    /\ UNCHANGED storeVars

\* msg_mapping_lock.__enter__: blocks until the lock is free
StAcquire(c) ==
    /\ st_pc[c] \in AtLock
    /\ msg_mapping_lock = "free"
    /\ msg_mapping_lock' = c
    /\ StGoto(c, Locked(st_pc[c]))
    /\ UNCHANGED storeVars

\* msg_mapping.get(id, {}) (lines 1270, 1331)
StGet(c, mid) ==
    /\ st_pc[c] = "get"
    /\ lookup_result' = [kind |-> "mesh", key |-> mid] @@ MappingGet(msg_mapping, mid)
    /\ StGoto(c, "unlock")
    /\ UNCHANGED <<msg_mapping, tg_next, rec_hist, msg_mapping_lock>>

\* lines 1305-1306
StInsPop(c) ==
    /\ st_pc[c] = "ins_pop"
    /\ msg_mapping' = IF NeedsEviction(msg_mapping) THEN PopItemFirst(msg_mapping)
                       ELSE msg_mapping
    /\ StGoto(c, "ins_set")
    /\ UNCHANGED <<tg_next, rec_hist, lookup_result, msg_mapping_lock>>

\* lines 1308-1312, for the mirror message the chat service numbered tg_next
StInsSet(c, mid, is_private) ==
    /\ st_pc[c] = "ins_set"
    /\ msg_mapping' = SetItem(msg_mapping,
                              [mid |-> mid, telegram_msg_id |-> tg_next,
                               node_id |-> IF is_private THEN 1 ELSE None,
                               is_private |-> is_private])
    /\ tg_next' = tg_next + 1
    /\ rec_hist' = Append(rec_hist, mid)
    /\ StGoto(c, "unlock")
    /\ UNCHANGED <<lookup_result, msg_mapping_lock>>

\* the loop of _find_reply_info (lines 568-570)
StScan(c, tid) ==
    /\ st_pc[c] = "scan"
    /\ lookup_result' = [kind |-> "mirror", key |-> tid, telegram_msg_id |-> tid]
                          @@ find_reply_info(msg_mapping, tid)
    /\ StGoto(c, "unlock")
    /\ UNCHANGED <<msg_mapping, tg_next, rec_hist, msg_mapping_lock>>

\* msg_mapping_lock.__exit__
StRelease(c) ==
    /\ st_pc[c] = "unlock"
    /\ msg_mapping_lock' = "free"
    /\ StGoto(c, "idle")
    /\ UNCHANGED storeVars

\* ------------------------------------------------------------------------
\* Configuration (_load_config, lines 106-137)
\* ------------------------------------------------------------------------
\* str.lower() on the characters of the model
LowerChar(c) ==
    CASE c = "A" -> "a" [] c = "N" -> "n" [] c = "U" -> "u" [] OTHER -> c
StrLower(str) == [i \in 1..Len(str) |-> LowerChar(str[i])]

InList(x, list) == \E i \in 1..Len(list) : list[i] = x

\* [kw.lower() for kw in self.config['keywords']] (line 113)
LoadKeywords(cfg) == [i \in 1..Len(cfg) |-> StrLower(cfg[i])]

\* packet.get('hopStart') is None; a hop_filter_interval entry that is null
NoHop == -1

general_suffix == <<"g">>
private_suffix == <<"p">>
ChatId == 1

\* the configuration of a run that is not about the bridge
CfgIdle ==
    /\ config_keywords = << <<"a">> >>
    /\ keywords = LoadKeywords(config_keywords)
    /\ private_node_names = {}
    /\ hop_filter_min = NoHop
    /\ hop_filter_max = NoHop
    /\ telegram_chat_id = ChatId
    /\ default_channel = None

\* ------------------------------------------------------------------------
\* Mesh client: the node table and the connection as the handlers see it
\* ------------------------------------------------------------------------
N1 == <<"N", "1">>
N2 == <<"N", "2">>
Unknown == <<"U", "n", "k", "n", "o", "w", "n">>
BROADCAST_NUM == 0

\* interface.nodesByNum: node 1 is fully known, node 2 has a short name but
\* no user id yet, every other number is absent from the table
NodeNums == {1, 2}
nodesByNum(num) ==
    IF num = 1 THEN [shortName |-> N1, id |-> 101]
    ELSE [shortName |-> N2, id |-> None]

\* _get_node_info (lines 374-386)
get_node_info(from_num) ==
    IF from_num \in NodeNums
    THEN [short_name |-> nodesByNum(from_num).shortName, node_id |-> nodesByNum(from_num).id]
    ELSE [short_name |-> Unknown, node_id |-> None]

ConnIdle ==
    /\ interface = 1
    /\ is_connected = TRUE

\* the threads that run lifecycle code: the control loop of run(), the mesh
\* library's callback thread, the chat thread handling /connect and /disconnect
Threads == {"ctl", "lib", "cmd"}
StartPc == [t \in Threads |-> IF t = "ctl" THEN "loop" ELSE "idle"]

\* the listeners of the topic "meshtastic.receive" form a set: pub.subscribe
\* of a listener that is subscribed already changes nothing, pub.unsubscribe
\* removes the listener.  Listeners are told apart by number; the bound
\* method self._on_receive is the same listener every time it is named
on_receive_listener == 0
pub_subscribe(listeners, listener) == listeners \cup {listener}
pub_unsubscribe(listeners, listener) == listeners \ {listener}

\* a _setup_subscriptions that wraps the handler in a new function object at
\* every call: each call subscribes a listener pubsub has not seen
setup_subscriptions_fresh_wrapper(listeners, handle) ==
    IF handle # None
    THEN pub_subscribe(listeners, Cardinality(listeners) + 1)
    ELSE listeners

\* _setup_subscriptions (lines 1377-1384), the receive topic
setup_subscriptions(listeners, handle) ==
    IF handle # None
    THEN pub_subscribe(listeners, on_receive_listener)
    ELSE listeners

\* the subscriptions after __init__: _connect_meshtastic has subscribed at
\* line 721 if it opened a connection, and line 96 calls _setup_subscriptions
\* once more
StartListeners(handle) == setup_subscriptions(setup_subscriptions({}, handle), handle)

\* the lifecycle of a run that keeps its connection: no thread moves
LifeIdle ==
    /\ manual_disconnect = FALSE
    /\ reconnect_in_progress = FALSE
    /\ pc = StartPc
    /\ link_ok = TRUE
    /\ leaked = 0
    /\ receive_listeners = StartListeners(1)
    /\ endpoint_up = TRUE
    /\ since_check = 0
    /\ since_attempt = 0

NoOp == [kind |-> "none"]
BridgeInit ==
    /\ node_map = << >>
    /\ h_pc = "idle"
    /\ h_op = NoOp
    /\ mesh_sent = <<>>
    /\ chat_posts = <<>>

\* the chats that can reach the bot: the configured one and a stranger's
OtherChat == 2
Chats == {ChatId, OtherChat}

\* pending_messages.get(chat_id) is None.  reply_to, origin,
\* mapping_at_staging, replaced and transmitted are history: the staged
\* message's parent in the chat, the handler that staged it, the store as it
\* was then, the id of the staged message it took the place of and whether an
\* accept has already transmitted it; no handler reads them
NoPending == [text |-> <<>>, dest |-> None, reply_id |-> None, msg_id |-> None,
              node_name |-> <<>>, reply_to |-> None, origin |-> "none",
              mapping_at_staging |-> <<>>, replaced |-> None, transmitted |-> FALSE]
ChatIdle == pending_messages = [c \in Chats |-> NoPending]

\* ------------------------------------------------------------------------
\* Chat delivery with retry: _send_with_retry (lines 822-835)
\* ------------------------------------------------------------------------
max_retries == 3
\* the outcomes of one bot.send_message call are listed for this many calls
MaxOutcomes == 4

\* One bot.send_message call returns the sent message ("ok") or raises:
\* requests' ReadTimeout, telebot's ApiException, or any other exception; the
\* text of the exception holds the word "timeout" or not.
Delivered == [class |-> "ok", timeout_text |-> FALSE]
SendOutcomes ==
    {Delivered} \cup [class : {"ReadTimeout", "ApiException", "Other"}, timeout_text : BOOLEAN]

\* except (requests.exceptions.ReadTimeout, telebot.apihelper.ApiException)
Caught(outcome) == outcome.class \in {"ReadTimeout", "ApiException"}

RetryStart == [calls |-> 0, waits |-> <<>>, result |-> "running", error |-> Delivered]

\* a loop body that retries after every caught error, whatever its text
RetryAttemptAnyCaught(st, attempt, outcome) ==
    IF st.result # "running" THEN st
    ELSE IF outcome.class = "ok"
    THEN [st EXCEPT !.calls = @ + 1, !.result = "returned"]
    ELSE IF Caught(outcome) /\ attempt < max_retries - 1
    THEN [st EXCEPT !.calls = @ + 1, !.waits = Append(@, (attempt + 1) * 5)]
    ELSE [st EXCEPT !.calls = @ + 1, !.result = "raised", !.error = outcome]

\* One iteration of "for attempt in range(max_retries)" (lines 824-834)
RetryAttempt(st, attempt, outcome) ==
    IF st.result # "running" THEN st
    ELSE IF outcome.class = "ok"
    THEN [st EXCEPT !.calls = @ + 1, !.result = "returned"]
    ELSE IF Caught(outcome) /\ outcome.timeout_text /\ attempt < max_retries - 1
    THEN [st EXCEPT !.calls = @ + 1, !.waits = Append(@, (attempt + 1) * 5)]
    ELSE [st EXCEPT !.calls = @ + 1, !.result = "raised", !.error = outcome]

RECURSIVE RetryLoop(_, _, _)
RetryLoop(st, attempt, outcomes) ==
    IF attempt >= max_retries THEN st
    ELSE RetryLoop(RetryAttempt(st, attempt, outcomes[attempt + 1]), attempt + 1, outcomes)

\* the loop, then "return None" (line 835) when no iteration returned or raised
send_with_retry(outcomes) ==
    LET st == RetryLoop(RetryStart, 0, outcomes)
    IN IF st.result = "running" THEN [st EXCEPT !.result = "returned_none"] ELSE st

RetryInit ==
    /\ retry_outcomes \in [1..MaxOutcomes -> SendOutcomes]
    /\ retry_result = RetryStart

RetryIdle ==
    /\ retry_outcomes = [k \in 1..MaxOutcomes |-> Delivered]
    /\ retry_result = RetryStart

SendWithRetry ==
    /\ retry_result.result = "running"
    /\ retry_result' = send_with_retry(retry_outcomes)
    /\ UNCHANGED retry_outcomes
    /\ UNCHANGED notRetryVars

\* ------------------------------------------------------------------------
\* Mesh delivery and chat mirroring, as effects on a record
\*   fx = [conn, mapping, tg, hist, sent, posts]
\* (is_connected, msg_mapping, the chat's next message id, the record history,
\* the sendText calls and the chat posts made so far by the running handler)
\* ------------------------------------------------------------------------
FxStart == [conn |-> is_connected, mapping |-> msg_mapping, tg |-> tg_next,
            hist |-> rec_hist, sent |-> <<>>, posts |-> <<>>]

\* _send_to_meshtastic (lines 476-495): one sendText call; a call that raises
\* marks the connection lost (_mark_disconnected, lines 467-470)
send_to_meshtastic(fx, text, send_kwargs, node_id, origin, send_ok) ==
    IF interface = None \/ ~fx.conn
    THEN [fx |-> fx, send_type |-> "None"]
    ELSE LET tx == [text |-> text, destinationId |-> node_id,
                    replyId |-> send_kwargs.replyId, channel |-> send_kwargs.channel,
                    origin |-> origin, ok |-> send_ok]
             fx1 == [fx EXCEPT !.sent = Append(@, tx)]
         IN IF send_ok
            THEN [fx |-> fx1,
                  send_type |-> IF node_id # None THEN "unicast" ELSE "broadcast"]
            ELSE [fx |-> [fx1 EXCEPT !.conn = FALSE], send_type |-> "None"]

\* a _forward_to_telegram that stores the mapping before it knows whether the
\* chat accepted the post
forward_to_telegram_stores_first(fx, mid, short_name, original_text, node_id, is_private, reply_id, delivered) ==
    IF telegram_chat_id = None THEN fx
    ELSE LET telegram_parent_id ==
                 IF reply_id # None THEN MappingGet(fx.mapping, reply_id).telegram_msg_id
                 ELSE None
             post == [kind |-> "mirror", short_name |-> short_name,
                      original_text |-> original_text, reply_text |-> <<>>,
                      is_private |-> is_private, reply_to |-> telegram_parent_id,
                      message_id |-> IF delivered THEN fx.tg ELSE None]
         IN [fx EXCEPT !.posts = Append(@, post),
                       !.tg = IF delivered THEN @ + 1 ELSE @,
                       !.mapping = IF mid # None
                                   THEN StoreRecord(@, mid, fx.tg, node_id, is_private)
                                   ELSE @,
                       !.hist = IF mid # None THEN Append(@, mid) ELSE @]

\* _forward_to_telegram (lines 1260-1320)
forward_to_telegram(fx, mid, short_name, original_text, node_id, is_private, reply_id, delivered) ==
    IF telegram_chat_id = None THEN fx
    ELSE LET telegram_parent_id ==
                 IF reply_id # None THEN MappingGet(fx.mapping, reply_id).telegram_msg_id
                 ELSE None
             post == [kind |-> "mirror", short_name |-> short_name,
                      original_text |-> original_text, reply_text |-> <<>>,
                      is_private |-> is_private, reply_to |-> telegram_parent_id,
                      message_id |-> IF delivered THEN fx.tg ELSE None]
         IN IF ~delivered
            THEN [fx EXCEPT !.posts = Append(@, post)]
            ELSE [fx EXCEPT !.posts = Append(@, post),
                            !.tg = @ + 1,
                            !.mapping = IF mid # None
                                        THEN StoreRecord(@, mid, fx.tg, node_id, is_private)
                                        ELSE @,
                            !.hist = IF mid # None THEN Append(@, mid) ELSE @]

\* a _forward_auto_reply_to_telegram that posts only when the triggering
\* packet's mirror is in the store
forward_auto_reply_to_telegram_threaded_only(fx, short_name, original_text, reply_text, original_message_id, is_private, delivered) ==
    IF telegram_chat_id = None THEN fx
    ELSE LET telegram_parent_id == MappingGet(fx.mapping, original_message_id).telegram_msg_id
             post == [kind |-> "auto_reply", short_name |-> short_name,
                      original_text |-> original_text, reply_text |-> reply_text,
                      is_private |-> is_private, reply_to |-> telegram_parent_id,
                      message_id |-> IF delivered THEN fx.tg ELSE None]
         IN IF telegram_parent_id = None THEN fx
            ELSE IF delivered
            THEN [fx EXCEPT !.posts = Append(@, post), !.tg = @ + 1]
            ELSE [fx EXCEPT !.posts = Append(@, post)]

\* a mirror of the auto-reply that is never posted as a chat reply
forward_auto_reply_to_telegram_unthreaded(fx, short_name, original_text, reply_text, original_message_id, is_private, delivered) ==
    IF telegram_chat_id = None THEN fx
    ELSE LET post == [kind |-> "auto_reply", short_name |-> short_name,
                      original_text |-> original_text, reply_text |-> reply_text,
                      is_private |-> is_private, reply_to |-> None,
                      message_id |-> IF delivered THEN fx.tg ELSE None]
         IN IF delivered
            THEN [fx EXCEPT !.posts = Append(@, post), !.tg = @ + 1]
            ELSE [fx EXCEPT !.posts = Append(@, post)]

\* _forward_auto_reply_to_telegram (lines 1322-1349)
forward_auto_reply_to_telegram(fx, short_name, original_text, reply_text, original_message_id, is_private, delivered) ==
    IF telegram_chat_id = None THEN fx
    ELSE LET telegram_parent_id == MappingGet(fx.mapping, original_message_id).telegram_msg_id
             post == [kind |-> "auto_reply", short_name |-> short_name,
                      original_text |-> original_text, reply_text |-> reply_text,
                      is_private |-> is_private, reply_to |-> telegram_parent_id,
                      message_id |-> IF delivered THEN fx.tg ELSE None]
         IN IF delivered
            THEN [fx EXCEPT !.posts = Append(@, post), !.tg = @ + 1]
            ELSE [fx EXCEPT !.posts = Append(@, post)]

\* ------------------------------------------------------------------------
\* Auto-reply policy (_handle_auto_reply, lines 1483-1555)
\* ------------------------------------------------------------------------
RxSnr == 5
RxRssi == 90

\* _get_hops_reply (lines 438-444)
get_hops_reply(short_name, hop_count, suffix, via_short_name) ==
    short_name \o <<" ">> \o IntToStr(hop_count) \o <<" ", "h", "o", "p", "s">>
    \o (IF via_short_name # <<>> THEN <<" ", "v", "i", "a", " ">> \o via_short_name ELSE <<>>)
    \o <<" ">> \o suffix

\* _get_signal_reply (lines 430-436); the packet's rxRssi is -RxRssi
get_signal_reply(short_name, rssi, snr, suffix, via_short_name) ==
    short_name \o <<" ", "S", "N", "R", ":", " ">> \o IntToStr(snr)
    \o <<",", " ", "R", "S", "S", "I", ":", " ", "-">> \o IntToStr(rssi)
    \o (IF via_short_name # <<>> THEN <<" ", "v", "i", "a", " ">> \o via_short_name ELSE <<>>)
    \o <<" ">> \o suffix

FILTERED == <<"[", "F", "I", "L", "T", "E", "R", "E", "D", "]", " ">>

\* the privacy gate (line 1489)
PrivacySuppressedUnlessListEmpty(is_private, short_name) ==
    is_private /\ private_node_names # {} /\ StrLower(short_name) \notin private_node_names
PrivacySuppressed(is_private, short_name) ==
    is_private /\ StrLower(short_name) \notin private_node_names

\* the hop-range filter (lines 1518-1519)
HopFilteredAnyAudience(is_private, has_hop_count, hop_count) ==
    /\ has_hop_count
    /\ hop_filter_min # NoHop /\ hop_filter_max # NoHop
    /\ hop_filter_min <= hop_count /\ hop_count <= hop_filter_max
HopFiltered(is_private, has_hop_count, hop_count) ==
    /\ ~is_private
    /\ has_hop_count
    /\ hop_filter_min # NoHop /\ hop_filter_max # NoHop
    /\ hop_filter_min <= hop_count /\ hop_count <= hop_filter_max

\* auto_reply_kwargs (lines 1493-1497): the reply reference and the channel,
\* each set when the packet has it
AutoReplyKwargsDefaultChannel(meshtastic_msg_id, channel_name) ==
    [replyId |-> meshtastic_msg_id, channel |-> default_channel]
AutoReplyKwargs(meshtastic_msg_id, channel_name) ==
    [replyId |-> meshtastic_msg_id, channel |-> channel_name]

\* the choice of the reply's template (line 1509)
HopsTemplateChosenAtZeroToo(has_hop_count, hop_count) ==
    has_hop_count /\ hop_count >= 0
HopsTemplateChosen(has_hop_count, hop_count) ==
    has_hop_count /\ hop_count > 0

handle_auto_reply(fx, is_private, short_name, node_id, packet, channel_name, original_text, meshtastic_msg_id, via_short_name, send_ok, delivered) ==
    IF interface = None \/ ~fx.conn THEN fx
    ELSE IF PrivacySuppressed(is_private, short_name) THEN fx
    ELSE LET auto_reply_kwargs == AutoReplyKwargs(meshtastic_msg_id, channel_name)
             has_hop_count == packet.hopStart # NoHop /\ packet.hopLimit # NoHop
             hop_count == packet.hopStart - packet.hopLimit
             suffix == IF is_private THEN private_suffix ELSE general_suffix
             reply == IF HopsTemplateChosen(has_hop_count, hop_count)
                      THEN get_hops_reply(short_name, hop_count, suffix, via_short_name)
                      ELSE get_signal_reply(short_name, RxRssi, RxSnr, suffix, via_short_name)
         IN IF HopFiltered(is_private, has_hop_count, hop_count)
            THEN forward_auto_reply_to_telegram(fx, short_name, original_text,
                     FILTERED \o reply, meshtastic_msg_id, is_private, delivered)
            ELSE LET sent == send_to_meshtastic(fx, reply, auto_reply_kwargs,
                                 IF is_private THEN node_id ELSE None,
                                 "auto_reply", send_ok)
                 IN forward_auto_reply_to_telegram(sent.fx, short_name, original_text,
                        reply, meshtastic_msg_id, is_private, delivered)

\* ------------------------------------------------------------------------
\* The receive handler (_on_receive, lines 1386-1481) for a decoded text packet
\* ------------------------------------------------------------------------
\* any(kw in words for kw in self.keywords) (lines 1393-1397)
has_keywords_substring(original_text) ==
    LET text_lower == StrLower(original_text) IN
    \E i \in 1..Len(keywords) : \E a \in 1..(Len(text_lower) + 1), b \in 0..Len(text_lower) :
        SubSeq(text_lower, a, b) = keywords[i]
has_keywords(original_text) ==
    LET words == StrSplit(StrLower(original_text)) IN
    \E i \in 1..Len(keywords) : InList(keywords[i], words)

MyNodeNum == 9

on_receive(packet, mirror_ok, send_ok, reply_ok) ==
    LET original_text == packet.text
        info == get_node_info(packet.from)
        short_name == info.short_name
        node_id == info.node_id
        name_key == StrLower(short_name)
        new_node_map ==
            IF node_id # None /\ short_name # <<>>
            THEN [n \in (DOMAIN node_map) \cup {name_key} |->
                      IF n = name_key THEN node_id ELSE node_map[n]]
            ELSE node_map
        is_private == packet.to # BROADCAST_NUM
        via_short_name == IF packet.via # None THEN get_node_info(packet.via).short_name
                          ELSE <<>>
        forward == ~is_private \/ name_key \in private_node_names
        fx1 == IF forward
               THEN forward_to_telegram(FxStart, packet.id, short_name, original_text,
                                        node_id, is_private, packet.replyId, mirror_ok)
               ELSE FxStart
        fx2 == IF has_keywords(original_text)
               THEN handle_auto_reply(fx1, is_private, short_name, node_id, packet,
                                      packet.channel, original_text, packet.id,
                                      via_short_name, send_ok, reply_ok)
               ELSE fx1
    IN [fx |-> fx2, node_map |-> new_node_map]

\* a handler's effects become the new state
ApplyFx(fx) ==
    /\ is_connected' = fx.conn
    /\ msg_mapping' = fx.mapping
    /\ tg_next' = fx.tg
    /\ rec_hist' = fx.hist
    /\ mesh_sent' = fx.sent
    /\ chat_posts' = fx.posts

OnReceive(packet, mirror_ok, send_ok, reply_ok) ==
    /\ h_pc = "idle"
    /\ interface # None
    /\ tg_next <= MaxBridgePosts
    /\ \E r \in {on_receive(packet, mirror_ok, send_ok, reply_ok)} :
           /\ ApplyFx(r.fx)
           /\ node_map' = r.node_map
    /\ h_pc' = "done"
    /\ h_op' = [kind |-> "receive", packet |-> packet, escaped |-> FALSE]
    /\ UNCHANGED <<segVars, retryVars, lockVars, cfgVars, interface, lookup_result, chatVars, lifeVars>>

\* the handler has returned, or its exception was caught by the loop around
\* bot.polling (lines 1351-1361); its context waits for the next event
HandlerReturn ==
    /\ h_pc = "done"
    /\ h_pc' = "idle"
    /\ h_op' = NoOp
    /\ mesh_sent' = <<>>
    /\ chat_posts' = <<>>
    /\ UNCHANGED <<segVars, retryVars, lockVars, storeVars, cfgVars, connVars, node_map, chatVars, lifeVars>>

\* ------------------------------------------------------------------------
\* Chat side: staging (_handle_telegram_message, _handle_pm_command) and the
\* accept/cancel callbacks (_handle_confirmation)
\* ------------------------------------------------------------------------
\* str.split(maxsplit=2) (line 1035): at most three parts, the third keeps
\* the rest of the text
SkipSpaces(text, i) ==
    IF \E j \in i..Len(text) : ~IsSpace(text[j])
    THEN CHOOSE j \in i..Len(text) : ~IsSpace(text[j]) /\ \A k \in i..(j - 1) : IsSpace(text[k])
    ELSE Len(text) + 1
SkipWord(text, i) ==
    IF \E j \in i..Len(text) : IsSpace(text[j])
    THEN CHOOSE j \in i..Len(text) : IsSpace(text[j]) /\ \A k \in i..(j - 1) : ~IsSpace(text[k])
    ELSE Len(text) + 1
SplitMax2(text) ==
    LET a1 == SkipSpaces(text, 1)
        b1 == SkipWord(text, a1)
        a2 == SkipSpaces(text, b1)
        b2 == SkipWord(text, a2)
        a3 == SkipSpaces(text, b2)
    IN IF a1 > Len(text) THEN <<>>
       ELSE IF a2 > Len(text) THEN <<SubSeq(text, a1, b1 - 1)>>
       ELSE IF a3 > Len(text) THEN <<SubSeq(text, a1, b1 - 1), SubSeq(text, a2, b2 - 1)>>
       ELSE <<SubSeq(text, a1, b1 - 1), SubSeq(text, a2, b2 - 1), SubSeq(text, a3, Len(text))>>

\* lines 1223-1231: the node_map name of a destination id, else the id as text
node_name_of(dest_node_id) ==
    IF dest_node_id = None THEN <<>>
    ELSE IF \E n \in DOMAIN node_map : node_map[n] = dest_node_id
         THEN CHOOSE n \in DOMAIN node_map : node_map[n] = dest_node_id
         ELSE IntToStr(dest_node_id)

\* lines 1213-1250: what _handle_telegram_message stages for a free-text message
staged_from_text(message) ==
    LET info == IF message.reply_to # None
                THEN find_reply_info(msg_mapping, message.reply_to)
                ELSE [mid |-> None, node_id |-> None, is_private |-> FALSE]
    IN [text |-> message.text, dest |-> info.node_id, reply_id |-> info.mid,
        msg_id |-> message.message_id, node_name |-> node_name_of(info.node_id),
        reply_to |-> message.reply_to, origin |-> "text",
        mapping_at_staging |-> msg_mapping,
        replaced |-> pending_messages[message.chat].msg_id, transmitted |-> FALSE]

\* lines 1064-1070: what _handle_pm_command stages
staged_from_pm(message, node_name, text, node_id) ==
    [text |-> text, dest |-> node_id, reply_id |-> None,
     msg_id |-> message.message_id, node_name |-> node_name,
     reply_to |-> message.reply_to, origin |-> "pm",
     mapping_at_staging |-> msg_mapping,
     replaced |-> pending_messages[message.chat].msg_id, transmitted |-> FALSE]

StartsWithSlash(text) == Len(text) > 0 /\ text[1] = "/"
Notice == [kind |-> "notice"]
Prompt(message, delivered) == [kind |-> "prompt", msg_id |-> message.message_id, delivered |-> delivered]

\* _handle_telegram_message (lines 1193-1258).  save_ok: config.json could be
\* written; prompt_ok: the confirmation prompt reached the chat
HandleTelegramMessage(message, save_ok, prompt_ok) ==
    /\ h_pc = "idle"
    /\ tg_next <= MaxBridgePosts
    /\ message.message_id = tg_next
    /\ tg_next' = tg_next + 1
    /\ h_pc' = "done"
    /\ h_op' = [kind |-> "text", chat |-> message.chat, msg_id |-> message.message_id,
                pending |-> pending_messages[message.chat], escaped |-> FALSE]
    /\ mesh_sent' = <<>>
    /\ IF telegram_chat_id = None
       THEN /\ telegram_chat_id' = IF save_ok THEN message.chat ELSE None
            /\ chat_posts' = <<Notice>>
            /\ UNCHANGED pending_messages
       ELSE /\ UNCHANGED telegram_chat_id
            /\ IF StartsWithSlash(message.text)
               THEN chat_posts' = <<>> /\ UNCHANGED pending_messages
               ELSE IF message.chat # telegram_chat_id \/ interface = None \/ ~is_connected
               THEN chat_posts' = <<Notice>> /\ UNCHANGED pending_messages
               ELSE /\ chat_posts' = <<Prompt(message, prompt_ok)>>
                    /\ pending_messages' =
                         IF prompt_ok
                         THEN [pending_messages EXCEPT ![message.chat] = staged_from_text(message)]
                         ELSE pending_messages
    /\ UNCHANGED <<segVars, retryVars, lockVars, msg_mapping, rec_hist, lookup_result, cfgFixed,
                   private_node_names, connVars, node_map, lifeVars>>

\* _handle_pm_command (lines 1025-1075).  save_ok: config.json could be
\* written; prompt_ok: the confirmation prompt reached the chat; when it did
\* not, reply_to raised and the handler of lines 1073-1075 replies with the
\* error, a call that raises in its turn unless error_reply_ok: the exception
\* then leaves _handle_pm_command
HandlePmCommand(message, save_ok, prompt_ok, error_reply_ok) ==
    /\ h_pc = "idle"
    /\ tg_next <= MaxBridgePosts
    /\ message.message_id = tg_next
    /\ tg_next' = tg_next + 1
    /\ h_pc' = "done"
    /\ mesh_sent' = <<>>
    /\ LET parts == SplitMax2(message.text)
           node_name == StrLower(parts[2])
           node_id == IF node_name \in DOMAIN node_map THEN node_map[node_name] ELSE None
           op == [kind |-> "pm", chat |-> message.chat, msg_id |-> message.message_id,
                  pending |-> pending_messages[message.chat], escaped |-> FALSE]
       IN IF \/ (telegram_chat_id # None /\ message.chat # telegram_chat_id)
             \/ interface = None \/ ~is_connected
             \/ Len(parts) < 3
          THEN /\ chat_posts' = <<Notice>>
               /\ h_op' = op
               /\ UNCHANGED <<pending_messages, private_node_names>>
          ELSE /\ private_node_names' =
                    IF save_ok THEN private_node_names \cup {node_name} ELSE private_node_names
               /\ IF node_id = None
                  THEN chat_posts' = <<Notice>> /\ h_op' = op /\ UNCHANGED pending_messages
                  ELSE IF prompt_ok
                  THEN /\ chat_posts' = <<Prompt(message, TRUE)>>
                       /\ h_op' = op
                       /\ pending_messages' =
                            [pending_messages EXCEPT ![message.chat] =
                                 staged_from_pm(message, node_name, parts[3], node_id)]
                  ELSE /\ chat_posts' = <<Prompt(message, FALSE),
                                         [kind |-> "error_reply", delivered |-> error_reply_ok]>>
                       /\ h_op' = [op EXCEPT !.escaped = ~error_reply_ok]
                       /\ UNCHANGED pending_messages
    /\ UNCHANGED <<segVars, retryVars, lockVars, msg_mapping, rec_hist, lookup_result, cfgFixed,
                   telegram_chat_id, connVars, node_map, lifeVars>>

\* _send_multipart_to_meshtastic (lines 497-563): the parts go out in order
\* until a sendText call fails; fail_at is the index of the call that raises
\* (0: none does)
RECURSIVE SendParts(_, _, _, _, _, _, _)
SendParts(fx, parts, i, send_kwargs, node_id, origin, fail_at) ==
    IF i > Len(parts) THEN fx
    ELSE LET current_kwargs == IF i = 1 THEN send_kwargs
                               ELSE [send_kwargs EXCEPT !.replyId = None]
             r == send_to_meshtastic(fx, parts[i], current_kwargs, node_id, origin, i # fail_at)
         IN IF r.send_type = "None" THEN r.fx
            ELSE SendParts(r.fx, parts, i + 1, send_kwargs, node_id, origin, fail_at)

\* a multi-part send that reports success when any part went out
send_multipart_to_meshtastic_any_part(fx, text, send_kwargs, node_id, origin, fail_at) ==
    LET parts == split_text_by_bytes(text, MAX_BYTES_PER_MESSAGE)
        fx1 == SendParts(fx, parts, 1, send_kwargs, node_id, origin, fail_at)
        success_count == Cardinality({i \in 1..Len(fx1.sent) : fx1.sent[i].ok})
                         - Cardinality({i \in 1..Len(fx.sent) : fx.sent[i].ok})
    IN [fx |-> fx1, success |-> Len(parts) > 0 /\ success_count > 0,
        total_parts |-> Len(parts)]

send_multipart_to_meshtastic(fx, text, send_kwargs, node_id, origin, fail_at) ==
    LET parts == split_text_by_bytes(text, MAX_BYTES_PER_MESSAGE)
        fx1 == SendParts(fx, parts, 1, send_kwargs, node_id, origin, fail_at)
        success_count == Cardinality({i \in 1..Len(fx1.sent) : fx1.sent[i].ok})
                         - Cardinality({i \in 1..Len(fx.sent) : fx.sent[i].ok})
    IN [fx |-> fx1, success |-> Len(parts) > 0 /\ success_count = Len(parts),
        total_parts |-> Len(parts)]

\* a test that also lets through a callback of an earlier message
ConfirmMatchesOlderToo(pending, orig_msg_id) ==
    pending.msg_id # None /\ orig_msg_id <= pending.msg_id

\* pending and pending['msg_id'] == orig_msg_id (lines 890, 900)
ConfirmMatchesAnyId(pending, orig_msg_id) == pending.msg_id # None
ConfirmMatches(pending, orig_msg_id) ==
    pending.msg_id # None /\ pending.msg_id = orig_msg_id

\* del self.pending_messages[chat_id], reached only when the edit of the
\* prompt before it did not raise
DelPending(chat_id, edit_ok) ==
    IF edit_ok THEN [pending_messages EXCEPT ![chat_id] = NoPending] ELSE pending_messages

\* _handle_confirmation (lines 878-928) for a callback cancel_send_<id> or
\* confirm_send_<id> pressed in chat call.chat
HandleConfirmation(call, fail_at, edit_ok) ==
    /\ h_pc = "idle"
    /\ h_pc' = "done"
    /\ LET chat_id == call.chat
           pending == pending_messages[chat_id]
       IN /\ h_op' = [kind |-> call.action, chat |-> chat_id, msg_id |-> call.msg_id,
                      pending |-> pending, escaped |-> FALSE]
          /\ IF ~ConfirmMatches(pending, call.msg_id)
             THEN /\ mesh_sent' = <<>>
                  /\ chat_posts' = <<>>
                  /\ UNCHANGED <<pending_messages, is_connected>>
             ELSE IF call.action = "cancel" \/ interface = None \/ ~is_connected
             THEN /\ mesh_sent' = <<>>
                  /\ chat_posts' = <<[kind |-> "edit", delivered |-> edit_ok,
                                      notice |-> IF call.action = "cancel" THEN "cancelled"
                                                 ELSE "not_connected"]>>
                  /\ pending_messages' = DelPending(chat_id, edit_ok)
                  /\ UNCHANGED is_connected
             ELSE \E r \in {send_multipart_to_meshtastic(FxStart, pending.text,
                                [replyId |-> pending.reply_id, channel |-> default_channel],
                                pending.dest, "chat", fail_at)} :
                  /\ mesh_sent' = r.fx.sent
                  /\ is_connected' = r.fx.conn
                  /\ chat_posts' = <<[kind |-> "edit", delivered |-> edit_ok,
                                      notice |-> IF r.success THEN "sent" ELSE "error"]>>
                  /\ pending_messages' =
                         IF edit_ok THEN DelPending(chat_id, edit_ok)
                         ELSE [pending_messages EXCEPT ![chat_id].transmitted =
                                   @ \/ \E i \in 1..Len(r.fx.sent) : r.fx.sent[i].ok]
    /\ UNCHANGED <<segVars, retryVars, lockVars, storeVars, cfgVars, interface, node_map, lifeVars>>

Packets(texts, froms, tos, ids, replyIds, hopStarts, hopLimits, vias, channels) ==
    [text : texts, from : froms, to : tos, id : ids, replyId : replyIds,
     hopStart : hopStarts, hopLimit : hopLimits, via : vias, channel : channels]

\* ------------------------------------------------------------------------
\* Connection lifecycle: the control loop (run, lines 1586-1624), the health
\* check, _connect_meshtastic, _disconnect_meshtastic, _attempt_reconnect, the
\* library callbacks and the /connect and /disconnect commands, one action per
\* step a thread takes between two points where another thread may run
\* ------------------------------------------------------------------------
Min2(a, b) == IF a <= b THEN a ELSE b

Max2(a, b) == IF a >= b THEN a ELSE b

\* x << n on Python's unbounded integers
RECURSIVE ShiftLeft(_, _)
ShiftLeft(x, n) == IF n = 0 THEN x ELSE ShiftLeft(2 * x, n - 1)

\* a backoff whose exponent counts seconds instead of minutes
BackoffBySeconds(elapsed) == Min2(ShiftLeft(1, Min2(Max2(0, elapsed), 10)), 300)

\* a backoff without the cap of 300 seconds
BackoffUncapped(elapsed) == ShiftLeft(1, Min2(Max2(0, elapsed \div 60), 10))

\* lines 762-763: exponent = max(0, int(elapsed // 60));
\* backoff = min(1 << min(exponent, 10), 300)
Backoff(elapsed) == Min2(ShiftLeft(1, Min2(Max2(0, elapsed \div 60), 10)), 300)

Goto(t, label) == pc' = [pc EXCEPT ![t] = label]

\* the caller of _attempt_reconnect goes on: the control loop stores
\* last_connection_check (line 1601), a callback returns to the library
Return(t) ==
    IF t = "ctl"
    THEN Goto(t, "scan") /\ since_check' = 0
    ELSE Goto(t, "idle") /\ UNCHANGED since_check

\* time.sleep(seconds) as the two timers see it
Elapse(seconds) ==
    /\ since_check' = Min2(since_check + seconds, CONNECTION_CHECK_INTERVAL)
    /\ since_attempt' = Min2(since_attempt + seconds, MaxElapsed)

\* _check_connection (lines 450-465): the heartbeat raises on a dead socket
check_connection == interface # None /\ link_ok

\* a health check that does not look at manual_disconnect
CtlProbeIgnoresManual ==
    /\ pc["ctl"] = "loop"
    /\ IF since_check >= CONNECTION_CHECK_INTERVAL
       THEN IF ~check_connection
            THEN /\ is_connected' = FALSE
                 /\ Goto("ctl", "ar_gate")
                 /\ UNCHANGED since_check
            ELSE /\ Return("ctl")
                 /\ UNCHANGED is_connected
       ELSE /\ Goto("ctl", "scan")
            /\ UNCHANGED <<is_connected, since_check>>
    /\ UNCHANGED <<notLifeVars, interface, manual_disconnect, reconnect_in_progress,
                   link_ok, leaked, receive_listeners, endpoint_up, since_attempt>>

\* lines 1596-1601: the periodic health check of the control loop
CtlProbe ==
    /\ pc["ctl"] = "loop"
    /\ IF ~manual_disconnect /\ since_check >= CONNECTION_CHECK_INTERVAL
       THEN IF ~check_connection
            THEN /\ is_connected' = FALSE
                 /\ Goto("ctl", "ar_gate")
                 /\ UNCHANGED since_check
            ELSE /\ Return("ctl")
                 /\ UNCHANGED is_connected
       ELSE /\ Goto("ctl", "scan")
            /\ UNCHANGED <<is_connected, since_check>>
    /\ UNCHANGED <<notLifeVars, interface, manual_disconnect, reconnect_in_progress,
                   link_ok, leaked, receive_listeners, endpoint_up, since_attempt>>

\* lines 1603-1606 and 1617: the periodic node scan (_scan_nodes, lines
\* 388-407, marks the connection lost when it raises), then time.sleep(1)
CtlScan(scan_fails) ==
    /\ pc["ctl"] = "scan"
    /\ is_connected' = IF scan_fails /\ interface # None THEN FALSE ELSE is_connected
    /\ Elapse(1)
    /\ Goto("ctl", "loop")
    /\ UNCHANGED <<notLifeVars, interface, manual_disconnect, reconnect_in_progress,
                   link_ok, leaked, receive_listeners, endpoint_up>>

\* a gate that does not look at reconnect_in_progress
ArGateIgnoresInFlight(t) ==
    /\ pc[t] = "ar_gate"
    /\ IF \/ manual_disconnect
          \/ since_attempt < Backoff(since_attempt)
       THEN Return(t)
       ELSE Goto(t, "ar_set") /\ UNCHANGED since_check
    /\ UNCHANGED <<notLifeVars, connVars, manual_disconnect, reconnect_in_progress,
                   link_ok, leaked, receive_listeners, endpoint_up, since_attempt>>

\* _attempt_reconnect, lines 753-768: the three early returns
ArGate(t) ==
    /\ pc[t] = "ar_gate"
    /\ IF \/ manual_disconnect
          \/ reconnect_in_progress
          \/ since_attempt < Backoff(since_attempt)
       THEN Return(t)
       ELSE Goto(t, "ar_set") /\ UNCHANGED since_check
    /\ UNCHANGED <<notLifeVars, connVars, manual_disconnect, reconnect_in_progress,
                   link_ok, leaked, receive_listeners, endpoint_up, since_attempt>>

\* lines 770-771
ArSet(t) ==
    /\ pc[t] = "ar_set"
    /\ reconnect_in_progress' = TRUE
    /\ since_attempt' = 0
    /\ Goto(t, "cn_close")
    /\ UNCHANGED <<notLifeVars, connVars, manual_disconnect, link_ok, leaked, receive_listeners,
                   endpoint_up, since_check>>

\* _disconnect_meshtastic (lines 699-713)
disconnect_meshtastic ==
    IF interface # None
    THEN /\ receive_listeners' = pub_unsubscribe(receive_listeners, on_receive_listener)
         /\ interface' = None /\ is_connected' = FALSE /\ link_ok' = FALSE
    ELSE UNCHANGED <<interface, is_connected, link_ok, receive_listeners>>

\* _connect_meshtastic, line 718
CnClose(t) ==
    /\ pc[t] = "cn_close"
    /\ disconnect_meshtastic
    /\ Goto(t, "cn_open")
    /\ UNCHANGED <<notLifeVars, manual_disconnect, reconnect_in_progress, leaked,
                   endpoint_up, since_check, since_attempt>>

\* what the thread does once _connect_meshtastic has returned False
Failed(t) == IF t = "cmd" THEN "idle" ELSE "ar_fail"
Succeeded(t) == IF t = "cmd" THEN "idle" ELSE "ar_ok"

\* line 720, self.interface = TCPInterface(...), or lines 744-748 when the
\* constructor raises; a handle that was stored meanwhile is overwritten
CnOpen(t) ==
    /\ pc[t] = "cn_open"
    /\ leaked' = IF interface # None THEN Min2(leaked + 1, MaxLeaked) ELSE leaked
    /\ IF endpoint_up
       THEN /\ interface' = 1
            /\ link_ok' = TRUE
            /\ UNCHANGED is_connected
            /\ Goto(t, "cn_up")
       ELSE /\ interface' = None
            /\ link_ok' = FALSE
            /\ is_connected' = FALSE
            /\ Goto(t, Failed(t))
    /\ UNCHANGED <<notLifeVars, manual_disconnect, reconnect_in_progress,
                   receive_listeners, endpoint_up, since_check, since_attempt>>

\* lines 721-726: subscriptions, time.sleep(2), self.is_connected = True
CnUp(t) ==
    /\ pc[t] = "cn_up"
    /\ receive_listeners' = setup_subscriptions(receive_listeners, interface)
    /\ is_connected' = TRUE
    /\ Elapse(2)
    /\ Goto(t, "cn_wait")
    /\ UNCHANGED <<notLifeVars, interface, manual_disconnect, reconnect_in_progress,
                   link_ok, leaked, endpoint_up>>

\* lines 730-742: the wait for the node table, with its scan; reading
\* self.interface.nodesByNum raises when the handle is gone (lines 744-748)
CnWait(t, scan_fails) ==
    /\ pc[t] = "cn_wait"
    /\ IF interface = None
       THEN /\ is_connected' = FALSE
            /\ Goto(t, Failed(t))
       ELSE /\ is_connected' = IF scan_fails THEN FALSE ELSE is_connected
            /\ Goto(t, Succeeded(t))
    /\ UNCHANGED <<notLifeVars, interface, manual_disconnect, reconnect_in_progress,
                   link_ok, leaked, receive_listeners, endpoint_up, since_check, since_attempt>>

\* a reconnect attempt that, when it ends, also re-enables automatic
\* reconnection
ArDoneClearsFlag(t, scan_fails) ==
    /\ pc[t] \in {"ar_ok", "ar_fail"}
    /\ is_connected' = IF pc[t] = "ar_ok" /\ scan_fails /\ interface # None
                       THEN FALSE ELSE is_connected
    /\ reconnect_in_progress' = FALSE
    /\ manual_disconnect' = FALSE
    /\ Return(t)
    /\ UNCHANGED <<notLifeVars, interface, link_ok, leaked, receive_listeners, endpoint_up, since_attempt>>

\* _attempt_reconnect, lines 776-785: the scan after a success, then
\* reconnect_in_progress = False
ArDone(t, scan_fails) ==
    /\ pc[t] \in {"ar_ok", "ar_fail"}
    /\ is_connected' = IF pc[t] = "ar_ok" /\ scan_fails /\ interface # None
                       THEN FALSE ELSE is_connected
    /\ reconnect_in_progress' = FALSE
    /\ Return(t)
    /\ UNCHANGED <<notLifeVars, interface, manual_disconnect, link_ok, leaked, receive_listeners,
                   endpoint_up, since_attempt>>

\* _on_disconnect (lines 787-792) and _handle_meshtastic_error (794-800)
LibCallback ==
    /\ pc["lib"] = "idle"
    /\ is_connected' = FALSE
    /\ IF ~manual_disconnect THEN Goto("lib", "ar_gate") ELSE UNCHANGED pc
    /\ UNCHANGED <<notLifeVars, interface, manual_disconnect, reconnect_in_progress,
                   link_ok, leaked, receive_listeners, endpoint_up, since_check, since_attempt>>

\* a chat other than the configured one is refused (lines 970-973, 1011-1014)
Refused(chat) == telegram_chat_id # None /\ chat # telegram_chat_id

\* _handle_connect_command (lines 967-1006) up to line 996
CmdConnect(chat) ==
    /\ pc["cmd"] = "idle"
    /\ ~Refused(chat)
    /\ manual_disconnect' = FALSE
    /\ Goto("cmd", "cn_close")
    /\ UNCHANGED <<notLifeVars, connVars, reconnect_in_progress, link_ok, leaked, receive_listeners,
                   endpoint_up, since_check, since_attempt>>

\* _handle_disconnect_command (lines 1008-1023) up to line 1016
CmdDisconnect(chat) ==
    /\ pc["cmd"] = "idle"
    /\ ~Refused(chat)
    /\ manual_disconnect' = TRUE
    /\ Goto("cmd", "dc_close")
    /\ UNCHANGED <<notLifeVars, connVars, reconnect_in_progress, link_ok, leaked, receive_listeners,
                   endpoint_up, since_check, since_attempt>>

\* line 1019, and the reply that ends the command
CmdDcClose ==
    /\ pc["cmd"] = "dc_close"
    /\ disconnect_meshtastic
    /\ Goto("cmd", "idle")
    /\ UNCHANGED <<notLifeVars, manual_disconnect, reconnect_in_progress, leaked,
                   endpoint_up, since_check, since_attempt>>

\* a sendText call of some handler raises: _send_to_meshtastic, lines 478-495
SendFails ==
    /\ interface # None /\ is_connected
    /\ is_connected' = FALSE
    /\ UNCHANGED <<notLifeVars, interface, lifeVars>>

\* the environment: the socket of the connection dies; the endpoint stops or
\* starts accepting connections
LinkDrop ==
    /\ interface # None /\ link_ok
    /\ link_ok' = FALSE
    /\ UNCHANGED <<notLifeVars, connVars, manual_disconnect, reconnect_in_progress, pc,
                   leaked, receive_listeners, endpoint_up, since_check, since_attempt>>
EndpointChange ==
    /\ endpoint_up' = ~endpoint_up
    /\ UNCHANGED <<notLifeVars, connVars, manual_disconnect, reconnect_in_progress, pc,
                   link_ok, leaked, receive_listeners, since_check, since_attempt>>

\* ------------------------------------------------------------------------
\* Specifications
\* ------------------------------------------------------------------------
InitSplit == SegInit /\ StoreInit /\ CfgIdle /\ ConnIdle /\ BridgeInit /\ ChatIdle /\ RetryIdle /\ LifeIdle
NextSplit == SplitCall
SpecSplit == InitSplit /\ [][NextSplit]_vars

\* ---- Specification of the segmenter on single-word texts
InitWord == SegWordInit /\ StoreInit /\ CfgIdle /\ ConnIdle /\ BridgeInit /\ ChatIdle /\ RetryIdle /\ LifeIdle
NextWord == SplitCall
SpecWord == InitWord /\ [][NextWord]_vars

\* ---- Specification of the segmenter on texts padded with whitespace
InitPad == SegPadInit /\ StoreInit /\ CfgIdle /\ ConnIdle /\ BridgeInit /\ ChatIdle /\ RetryIdle /\ LifeIdle
NextPad == SplitCall
SpecPad == InitPad /\ [][NextPad]_vars

\* ---- Specification of one chat delivery with retry, for every sequence of
\* outcomes of the chat client's calls
InitRetry == SegIdle /\ StoreInit /\ CfgIdle /\ ConnIdle /\ BridgeInit /\ ChatIdle /\ LifeIdle /\ RetryInit
NextRetry == SendWithRetry
SpecRetry == InitRetry /\ [][NextRetry]_vars

InitStore == StoreInit /\ SegIdle /\ CfgIdle /\ ConnIdle /\ BridgeInit /\ ChatIdle /\ RetryIdle /\ LifeIdle
StoreForward ==
    \E mid \in MeshIds \cup {None}, is_private \in BOOLEAN, delivered \in BOOLEAN :
        ForwardToTelegramStore(mid, 1, is_private, delivered) /\ UNCHANGED notStoreVars
StoreFindReplyInfo ==
    \E tid \in 1..MaxPosts : FindReplyInfo(tid) /\ UNCHANGED notStoreVars
StoreLookupByMeshId ==
    \E mid \in MeshIds : LookupByMeshId(mid) /\ UNCHANGED notStoreVars
NextStore == StoreForward \/ StoreFindReplyInfo \/ StoreLookupByMeshId
SpecStore == InitStore /\ [][NextStore]_vars

\* ---- the store used by the receive callback and a chat handler at once
LockBegin == \E c \in Contexts, op \in AtLock : StBegin(c, op) /\ UNCHANGED notStoreLockVars
LockAcquire == \E c \in Contexts : StAcquire(c) /\ UNCHANGED notStoreLockVars
LockGet == \E c \in Contexts, mid \in MeshIds : StGet(c, mid) /\ UNCHANGED notStoreLockVars
LockInsPop == \E c \in Contexts : StInsPop(c) /\ UNCHANGED notStoreLockVars
LockInsSet == \E c \in Contexts, mid \in MeshIds : StInsSet(c, mid, FALSE) /\ UNCHANGED notStoreLockVars
LockScan == \E c \in Contexts, tid \in 1..MaxPosts : StScan(c, tid) /\ UNCHANGED notStoreLockVars
LockRelease == \E c \in Contexts : StRelease(c) /\ UNCHANGED notStoreLockVars
NextLock ==
    LockBegin \/ LockAcquire \/ LockGet \/ LockInsPop \/ LockInsSet \/ LockScan \/ LockRelease
SpecLock == InitStore /\ [][NextLock]_vars

\* ---- the keyword gate: every short text over a, A, b and the blank
KwChars == {"a", "A", "b", " "}
KwTexts == UNION {[1..n -> KwChars] : n \in 0..MaxKwTextLen}
KeywordConfigs == { << <<"a">> >>, << <<"A", "b">> >>, << <<"b">>, <<"a", "a">> >> }
KwPackets == Packets(KwTexts, {1}, {BROADCAST_NUM, MyNodeNum}, {1}, {None},
                     {NoHop}, {NoHop}, {None}, {None})

InitKeyword ==
    /\ SegIdle /\ StoreInit /\ ConnIdle /\ BridgeInit /\ ChatIdle /\ RetryIdle /\ LifeIdle
    /\ config_keywords \in KeywordConfigs
    /\ keywords = LoadKeywords(config_keywords)
    /\ private_node_names = {StrLower(N1)}
    /\ hop_filter_min = NoHop
    /\ hop_filter_max = NoHop
    /\ telegram_chat_id = ChatId
    /\ default_channel = None
KwReceive == \E packet \in KwPackets, send_ok \in BOOLEAN : OnReceive(packet, TRUE, send_ok, TRUE)
NextKeyword == KwReceive \/ HandlerReturn
SpecKeyword == InitKeyword /\ [][NextKeyword]_vars

\* ---- the auto-reply policy: keyword "a", every audience, sender, hop pair,
\* relay, channel and outcome of the collaborators' calls
AllowLists == { {}, {StrLower(N1), StrLower(N2)} }
HopFilters == { <<NoHop, NoHop>>, <<0, MaxHop - 1>> }
HopPairs == {<<NoHop, NoHop>>, <<MaxHop, NoHop>>, <<NoHop, 0>>} \cup {<<MaxHop, l>> : l \in 0..(MaxHop + 1)}
\* a packet heard directly on the default channel, or relayed by node 2 on channel 1
Routes == {<<None, None>>, <<2, 1>>}
ArPackets ==
    UNION { Packets({<<"a">>, <<"b">>}, {1, 2, 3}, {BROADCAST_NUM, MyNodeNum}, {None, 1},
                    {None, 1}, {h[1]}, {h[2]}, {r[1]}, {r[2]}) : h \in HopPairs, r \in Routes }

InitAutoReply ==
    /\ SegIdle /\ StoreInit /\ ConnIdle /\ BridgeInit /\ ChatIdle /\ RetryIdle /\ LifeIdle
    /\ config_keywords = << <<"a">> >>
    /\ keywords = LoadKeywords(config_keywords)
    /\ private_node_names \in AllowLists
    /\ \E f \in HopFilters : hop_filter_min = f[1] /\ hop_filter_max = f[2]
    /\ telegram_chat_id \in {None, ChatId}
    /\ default_channel = None
ArReceive ==
    \E packet \in ArPackets, chat_ok \in BOOLEAN, send_ok \in BOOLEAN :
        OnReceive(packet, chat_ok, send_ok, chat_ok)
NextAutoReply == ArReceive \/ HandlerReturn
SpecAutoReply == InitAutoReply /\ [][NextAutoReply]_vars

\* ---- the confirmation workflow: mirrored packets, free text and /pm from two
\* chats, and accept/cancel callbacks naming any message id given out so far
ConfirmPackets == Packets({<<"a">>}, {1, 2}, {BROADCAST_NUM, MyNodeNum}, {1, 2}, {None},
                          {NoHop}, {NoHop}, {None}, {None})
\* a short text, one of 14 accounted bytes (several chunks), an unknown command
ChatTexts == {<<"a">>, <<"U", " ", "U", " ", "U", " ", "U", " ", "U">>, <<"/", "x">>}
PmTexts == {<<"/", "p", "m">>, <<"/", "p", "m", " ">> \o N1 \o <<" ", "a">>,
            <<"/", "p", "m", " ">> \o N2 \o <<" ", "a">>}
ChatIds == 1..(MaxBridgePosts + 1)
Messages(texts) ==
    [chat : Chats, message_id : 1..MaxBridgePosts, text : texts, reply_to : {None} \cup (1..MaxBridgePosts)]
Calls == [chat : Chats, action : {"accept", "cancel"}, msg_id : ChatIds]

InitConfirm ==
    /\ SegIdle /\ StoreInit /\ ConnIdle /\ BridgeInit /\ ChatIdle /\ RetryIdle /\ LifeIdle
    /\ config_keywords = << <<"b">> >>
    /\ keywords = LoadKeywords(config_keywords)
    /\ private_node_names = {StrLower(N1)}
    /\ hop_filter_min = NoHop
    /\ hop_filter_max = NoHop
    /\ telegram_chat_id \in {None, ChatId}
    /\ default_channel \in {None, 1}
ConfirmReceive == \E packet \in ConfirmPackets, chat_ok \in BOOLEAN : OnReceive(packet, chat_ok, TRUE, chat_ok)
ChatText == \E message \in Messages(ChatTexts), ok \in BOOLEAN : HandleTelegramMessage(message, ok, ok)
ChatPm ==
    \E message \in Messages(PmTexts), ok \in BOOLEAN, error_reply_ok \in BOOLEAN :
        HandlePmCommand(message, ok, ok, error_reply_ok)
ChatCallback ==
    \E call \in Calls, fail_at \in 0..2, edit_ok \in BOOLEAN : HandleConfirmation(call, fail_at, edit_ok)
NextConfirm == ConfirmReceive \/ ChatText \/ ChatPm \/ ChatCallback \/ HandlerReturn
SpecConfirm == InitConfirm /\ [][NextConfirm]_vars

\* ---- the connection lifecycle, all threads: after construction the bot is
\* connected or not (_init_meshtastic, lines 1364-1375)
InitLife ==
    /\ SegIdle /\ StoreInit /\ CfgIdle /\ BridgeInit /\ ChatIdle /\ RetryIdle
    /\ \/ interface = 1 /\ is_connected = TRUE /\ link_ok = TRUE
       \/ interface = None /\ is_connected = FALSE /\ link_ok = FALSE
    /\ manual_disconnect = FALSE
    /\ reconnect_in_progress = FALSE
    /\ pc = StartPc
    /\ leaked = 0
    /\ receive_listeners = StartListeners(interface)
    /\ endpoint_up \in BOOLEAN
    /\ since_check = CONNECTION_CHECK_INTERVAL
    /\ since_attempt = 0
Reconnectors == {"ctl", "lib"}
LifeScan == \E scan_fails \in BOOLEAN : CtlScan(scan_fails)
LifeGate == \E t \in Reconnectors : ArGate(t)
LifeSet == \E t \in Reconnectors : ArSet(t)
LifeClose == \E t \in Threads : CnClose(t)
LifeOpen == \E t \in Threads : CnOpen(t)
LifeUp == \E t \in Threads : CnUp(t)
LifeWait == \E t \in Threads, scan_fails \in BOOLEAN : CnWait(t, scan_fails)
LifeDone == \E t \in Reconnectors, scan_fails \in BOOLEAN : ArDone(t, scan_fails)
LifeConnect == \E chat \in Chats : CmdConnect(chat)
LifeDisconnect == \E chat \in Chats : CmdDisconnect(chat)
Next ==
    \/ CtlProbe \/ LifeScan \/ LifeGate \/ LifeSet \/ LifeClose \/ LifeOpen \/ LifeUp
    \/ LifeWait \/ LifeDone \/ LibCallback \/ LifeConnect \/ LifeDisconnect \/ CmdDcClose
    \/ SendFails \/ LinkDrop \/ EndpointChange
Spec == InitLife /\ [][Next]_vars

\* ---- the control loop alone with its environment, scheduled fairly: no
\* operator command arrives and the library makes no callback
CtlStep ==
    \/ CtlProbe
    \/ \E scan_fails \in BOOLEAN : CtlScan(scan_fails)
    \/ ArGate("ctl") \/ ArSet("ctl") \/ CnClose("ctl") \/ CnOpen("ctl") \/ CnUp("ctl")
    \/ \E scan_fails \in BOOLEAN : CnWait("ctl", scan_fails)
    \/ \E scan_fails \in BOOLEAN : ArDone("ctl", scan_fails)
NextFair == CtlStep \/ SendFails \/ LinkDrop \/ EndpointChange
FairSpec == InitLife /\ [][NextFair]_vars /\ WF_vars(CtlStep)

\* ---- one call of _attempt_reconnect by a library callback, made any number
\* of seconds after the last attempt, nothing else running
InitBackoff ==
    /\ SegIdle /\ StoreInit /\ CfgIdle /\ BridgeInit /\ ChatIdle /\ RetryIdle
    /\ interface = None /\ is_connected = FALSE /\ link_ok = FALSE
    /\ manual_disconnect = FALSE
    /\ reconnect_in_progress = FALSE
    /\ pc = [StartPc EXCEPT !["lib"] = "ar_gate"]
    /\ leaked = 0
    /\ receive_listeners = StartListeners(interface)
    /\ endpoint_up = TRUE
    /\ since_check = 0
    /\ since_attempt \in 0..MaxIdle
BackoffCall == ArGate("lib")
NextBackoff == BackoffCall
SpecBackoff == InitBackoff /\ [][NextBackoff]_vars

\* ------------------------------------------------------------------------
\* Claims about the segmenter
\* ------------------------------------------------------------------------
\* The part of a returned chunk before its " [i/N]" marker
ChunkBody(i) ==
    IF Len(seg_parts) > 1
    THEN SubSeq(seg_parts[i], 1, Len(seg_parts[i]) - Len(Marker(i, Len(seg_parts))))
    ELSE seg_parts[i]

\* C5: for every text and every budget max_bytes, each chunk returned by the
\* split has accounted size at most max_bytes including its [i/N] marker, and
\* no chunk body made of one word (a word too large to share a chunk) exceeds
\* the effective budget max_bytes - 10, wherever the word stood in the text.
C5_EveryChunkWithinBudget ==
    seg_pc = "done" =>
        \A i \in 1..Len(seg_parts) :
            /\ calculate_text_bytes(seg_parts[i]) <= seg_max_bytes
            /\ (Len(seg_parts) > 1 /\ Len(StrSplit(ChunkBody(i))) = 1)
                   => calculate_text_bytes(ChunkBody(i)) <= seg_max_bytes - marker_reserve

\* ------------------------------------------------------------------------
\* Claims about the correlation store
\* ------------------------------------------------------------------------
IsDistinct(seq) == \A i, j \in 1..Len(seq) : seq[i] = seq[j] => i = j
LastN(seq, n) == IF Len(seq) <= n THEN seq ELSE SubSeq(seq, Len(seq) - n + 1, Len(seq))
StoredIds == [i \in 1..Len(msg_mapping) |-> msg_mapping[i].mid]

\* C6: the correlation store never holds more records than its capacity,
\* after any sequence of record operations (repeated mesh ids included) and
\* lookups.
C6_StoreWithinCapacity == Len(msg_mapping) <= MAX_MAPPING_SIZE

\* a full store after more records than the capacity, one mesh id recorded
\* twice, and a lookup from the chat context
C6_Witness ==
    /\ Len(msg_mapping) = MAX_MAPPING_SIZE
    /\ Len(rec_hist) > MAX_MAPPING_SIZE
    /\ ~IsDistinct(rec_hist)
    /\ lookup_result.kind = "mirror"

\* C7: eviction is insertion-order FIFO: as long as the recorded mesh ids are
\* distinct, the store holds exactly the most recent MAX_MAPPING_SIZE of them,
\* in insertion order, whatever lookups were made in between.
C7_FifoEviction == IsDistinct(rec_hist) => StoredIds = LastN(rec_hist, MAX_MAPPING_SIZE)

\* capacity + 1 distinct records, the first of them found by a lookup by
\* mirror id before it was evicted
C7_Witness ==
    /\ Len(rec_hist) = MAX_MAPPING_SIZE + 1
    /\ IsDistinct(rec_hist)
    /\ lookup_result.kind = "mirror"
    /\ lookup_result.mid = rec_hist[1]
    /\ ~HasKey(msg_mapping, rec_hist[1])
    /\ \A i \in 2..Len(rec_hist) : HasKey(msg_mapping, rec_hist[i])

\* ------------------------------------------------------------------------
\* Claims about the receive handler and the auto-reply policy
\* ------------------------------------------------------------------------
\* a text packet has been handled and the handler has not yet returned
Handled == h_pc = "done" /\ h_op.kind = "receive"
AutoReplySends == {i \in 1..Len(mesh_sent) : mesh_sent[i].origin = "auto_reply"}
AutoReplyPosts == {i \in 1..Len(chat_posts) : chat_posts[i].kind = "auto_reply"}
IsPrefix(p, str) == Len(str) >= Len(p) /\ SubSeq(str, 1, Len(p)) = p
PacketHopCount == h_op.packet.hopStart - h_op.packet.hopLimit
PacketHasHopCount == h_op.packet.hopStart # NoHop /\ h_op.packet.hopLimit # NoHop
PacketInHopFilter ==
    /\ PacketHasHopCount
    /\ hop_filter_min # NoHop /\ hop_filter_max # NoHop
    /\ hop_filter_min <= PacketHopCount /\ PacketHopCount <= hop_filter_max
SenderAllowed ==
    StrLower(get_node_info(h_op.packet.from).short_name) \in private_node_names
TokenMatch(text) ==
    \E i \in 1..Len(config_keywords) : \E j \in 1..Len(StrSplit(text)) :
        StrLower(config_keywords[i]) = StrLower(StrSplit(text)[j])

\* C8: for a handled broadcast packet with a keyword, when a [min,max] hop
\* filter is configured and min <= hopCount <= max, nothing is transmitted on
\* the mesh and, where a reply was composed (the bot was connected) and a chat
\* is configured, the one auto-reply post to chat is the reply marked
\* [FILTERED]; for a handled private packet with a keyword from an allowed
\* sender the reply is transmitted whatever the hop count and the filter, and
\* its chat post is never marked as filtered.
C8_HopFilterBroadcastOnly ==
    (Handled /\ has_keywords(h_op.packet.text)) =>
        /\ (h_op.packet.to = BROADCAST_NUM /\ PacketInHopFilter) =>
              /\ mesh_sent = <<>>
              /\ (is_connected /\ telegram_chat_id # None) =>
                    /\ Cardinality(AutoReplyPosts) = 1
                    /\ \A i \in AutoReplyPosts : IsPrefix(FILTERED, chat_posts[i].reply_text)
              /\ (telegram_chat_id = None) => chat_posts = <<>>
        /\ (h_op.packet.to # BROADCAST_NUM /\ SenderAllowed) =>
              /\ is_connected => Cardinality(AutoReplySends) = 1
              /\ \A i \in AutoReplyPosts : ~IsPrefix(FILTERED, chat_posts[i].reply_text)

\* C8 witness: a broadcast keyword packet whose hop count lies inside the
\* configured filter has been handled and its reply was posted to chat marked
\* as filtered, with nothing sent on the mesh.
C8_Witness ==
    /\ Handled /\ has_keywords(h_op.packet.text)
    /\ h_op.packet.to = BROADCAST_NUM /\ PacketInHopFilter
    /\ PacketHopCount > 0
    /\ mesh_sent = <<>>
    /\ \E i \in AutoReplyPosts : IsPrefix(FILTERED, chat_posts[i].reply_text)

\* C9: an auto-reply (a mesh transmission or a chat post of the reply) is made
\* for a handled text packet only if some configured keyword equals, ignoring
\* case, a whole whitespace-delimited token of the packet's text.
C9_ReplyOnlyOnWholeToken ==
    (Handled /\ (AutoReplySends # {} \/ AutoReplyPosts # {})) => TokenMatch(h_op.packet.text)

\* C9 witness: a reply was made for a text whose matching token differs from
\* the configured keyword in case, next to another token.
C9_Witness ==
    /\ Handled /\ AutoReplySends # {} /\ AutoReplyPosts # {}
    /\ Len(StrSplit(h_op.packet.text)) = 2
    /\ \A i \in 1..Len(config_keywords) : \A j \in 1..Len(StrSplit(h_op.packet.text)) :
           config_keywords[i] # StrSplit(h_op.packet.text)[j]

\* C10: for a handled private packet whose sender short name, lowercased, is
\* not in the private-node allow-list, no auto-reply is transmitted on the
\* mesh and no auto-reply is posted to chat, keyword or not.
C10_PrivateSenderNotAllowedNoReply ==
    (Handled /\ h_op.packet.to # BROADCAST_NUM /\ ~SenderAllowed) =>
        AutoReplySends = {} /\ AutoReplyPosts = {}

\* C10 witness: a private keyword packet from a sender outside a non-empty
\* allow-list has been handled while the bot was connected.
C10_Witness ==
    /\ Handled /\ h_op.packet.to # BROADCAST_NUM /\ ~SenderAllowed
    /\ private_node_names # {}
    /\ has_keywords(h_op.packet.text)
    /\ is_connected /\ telegram_chat_id # None
    /\ AutoReplySends = {} /\ AutoReplyPosts = {}

\* ------------------------------------------------------------------------
\* Claims about the confirmation workflow
\* ------------------------------------------------------------------------
ChatSends == {i \in 1..Len(mesh_sent) : mesh_sent[i].origin = "chat"}
StagedChunks == split_text_by_bytes(h_op.pending.text, MAX_BYTES_PER_MESSAGE)

\* C2: a handler has transmitted text that came from chat only if it is the
\* handler of an accept callback whose message id equals the id of the message
\* staged for that chat when the callback arrived, and what it transmitted are
\* chunks of that staged text in order; the receive handler transmits nothing
\* from chat, and staging (free text or /pm), a cancel and an accept with
\* another id transmit nothing at all.
C2_ChatTextOnlyOnMatchingAccept ==
    h_pc = "done" =>
        /\ h_op.kind = "receive" => ChatSends = {}
        /\ h_op.kind \in {"text", "pm", "cancel"} => mesh_sent = <<>>
        /\ (h_op.kind = "accept" /\ mesh_sent # <<>>) =>
              /\ h_op.pending.msg_id # None
              /\ h_op.pending.msg_id = h_op.msg_id
              /\ Len(mesh_sent) <= Len(StagedChunks)
              /\ \A i \in 1..Len(mesh_sent) : mesh_sent[i].text = StagedChunks[i]

\* C2 witness: an accept callback naming the staged message has transmitted
\* the staged text, in more than one chunk.
C2_Witness ==
    /\ h_pc = "done" /\ h_op.kind = "accept"
    /\ h_op.pending.msg_id = h_op.msg_id
    /\ Len(mesh_sent) > 1
    /\ ChatSends = 1..Len(mesh_sent)

\* C3: when the accepted message was staged from a free-text chat message that
\* replied to chat message t, and the store held at staging time a record whose
\* mirror id is t, the first transmission of the accept handler carries that
\* record's mesh id as its reply reference and is addressed to that record's
\* node id.
C3_ReplyResolvedThroughMirrorId ==
    (/\ h_pc = "done" /\ h_op.kind = "accept"
     /\ h_op.pending.msg_id = h_op.msg_id
     /\ h_op.pending.origin = "text"
     /\ h_op.pending.reply_to # None
     /\ mesh_sent # <<>>) =>
        \A k \in 1..Len(h_op.pending.mapping_at_staging) :
            h_op.pending.mapping_at_staging[k].telegram_msg_id = h_op.pending.reply_to =>
                /\ mesh_sent[1].replyId = h_op.pending.mapping_at_staging[k].mid
                /\ mesh_sent[1].destinationId = h_op.pending.mapping_at_staging[k].node_id

\* C3 witness: an accepted reply to the mirror of a private mesh message went
\* out with that message's mesh id as reply reference, to its sender's node id,
\* where the mesh id differs from the mirror id.
C3_Witness ==
    /\ h_pc = "done" /\ h_op.kind = "accept"
    /\ h_op.pending.msg_id = h_op.msg_id
    /\ h_op.pending.origin = "text"
    /\ mesh_sent # <<>>
    /\ \E k \in 1..Len(h_op.pending.mapping_at_staging) :
           /\ h_op.pending.mapping_at_staging[k].telegram_msg_id = h_op.pending.reply_to
           /\ h_op.pending.mapping_at_staging[k].mid # h_op.pending.reply_to
           /\ h_op.pending.mapping_at_staging[k].node_id # None
           /\ mesh_sent[1].replyId = h_op.pending.mapping_at_staging[k].mid
           /\ mesh_sent[1].destinationId = h_op.pending.mapping_at_staging[k].node_id

\* ------------------------------------------------------------------------
\* Claims about the connection lifecycle
\* ------------------------------------------------------------------------
\* C1: once a /disconnect command has completed and until the next /connect
\* command starts (manual_disconnect is set and the chat thread is idle), the
\* bot is not connected and no mesh connection is open, whatever the control
\* loop and the library callbacks do meanwhile.
C1_ManualDisconnectHolds ==
    (manual_disconnect /\ pc["cmd"] = "idle") =>
        (~is_connected /\ interface = None /\ leaked = 0)

\* C4: whenever the bot is disconnected, manual_disconnect is false and the
\* endpoint accepts connections, the fairly scheduled control loop leads to a
\* state where the bot is connected again (or the operator has disconnected,
\* or the endpoint has stopped accepting connections).
C4_EventuallyReconnected ==
    (~is_connected /\ ~manual_disconnect /\ endpoint_up)
        ~> (is_connected \/ manual_disconnect \/ ~endpoint_up)

\* the steps of a reconnect attempt between its gate and its return
InConnect == {"cn_close", "cn_open", "cn_up", "cn_wait"}
InAttempt == {"ar_set"} \cup InConnect \cup {"ar_ok", "ar_fail"}

\* C11: manual_disconnect becomes true only in the step of a /disconnect
\* command that sets it and becomes false only in the step of a /connect
\* command that clears it; no health check, library callback or reconnect
\* attempt changes it, an attempt in flight during /disconnect included.
C11_FlagChangedOnlyByOperator ==
    [][/\ (~manual_disconnect /\ manual_disconnect')
            => \E chat \in Chats : CmdDisconnect(chat)
       /\ (manual_disconnect /\ ~manual_disconnect')
            => \E chat \in Chats : CmdConnect(chat)]_vars

\* C11 witness: a reconnect attempt of the control loop that was in flight
\* when /disconnect set the flag has run to its end, the flag still set.
C11_Witness ==
    /\ manual_disconnect
    /\ pc["cmd"] = "idle"
    /\ pc["ctl"] \in {"ar_ok", "ar_fail"}

\* C12: _connect_meshtastic first closes the connection it finds (no handle is
\* held once its close step is over), and in the step in which it returns the
\* bot is connected and holds a handle if the new connection was opened, and
\* is disconnected and holds no handle if opening it failed.
C12_ConnectedIffOpened ==
    [][\A t \in Threads :
          /\ (pc[t] = "cn_close" /\ pc'[t] # "cn_close") => interface' = None
          /\ (pc[t] \in InConnect /\ pc'[t] \notin InConnect)
                => IF pc[t] = "cn_wait"
                   THEN is_connected' /\ interface' # None
                   ELSE ~is_connected' /\ interface' = None]_vars

\* C13: a call of _attempt_reconnect made while manual_disconnect is set, or
\* while reconnect_in_progress is set, or before the backoff interval has
\* elapsed since the last attempt, returns without starting an attempt: it
\* does not enter _connect_meshtastic and leaves last_reconnect_attempt,
\* reconnect_in_progress, is_connected and the connection handle as they were.
C13_GatedCallIsNoOp ==
    [][\A t \in Reconnectors :
          (/\ pc[t] = "ar_gate" /\ pc'[t] # "ar_gate"
           /\ \/ manual_disconnect
              \/ reconnect_in_progress
              \/ since_attempt < Backoff(since_attempt))
          => /\ pc'[t] \notin InAttempt
             /\ since_attempt' = since_attempt
             /\ reconnect_in_progress' = reconnect_in_progress
             /\ is_connected' = is_connected
             /\ interface' = interface]_vars

\* C13 witness: the library callback calls _attempt_reconnect while an attempt
\* of the control loop is inside _connect_meshtastic, and neither the manual
\* flag nor the backoff would stop it.
C13_Witness ==
    /\ pc["lib"] = "ar_gate"
    /\ pc["ctl"] \in InConnect
    /\ reconnect_in_progress
    /\ ~manual_disconnect
    /\ since_attempt >= Backoff(since_attempt)

\* C14: at most one automatic reconnect attempt is in flight: the control
\* loop and the library callback are never both past the gate of
\* _attempt_reconnect and inside _connect_meshtastic at the same time.
C14_SingleAttemptInFlight ==
    ~(pc["ctl"] \in InConnect /\ pc["lib"] \in InConnect)

\* the mesh connections that are open: the one self.interface refers to and
\* those that were opened and never closed
OpenConnections == leaked + (IF interface # None THEN 1 ELSE 0)

\* C15: at most one mesh connection is open at any time, whatever the
\* interleaving of /connect, /disconnect and automatic reconnect attempts.
C15_AtMostOneConnectionOpen == OpenConnections <= 1

C17_FailedProbeTriggersReconnect ==
    [][(pc["ctl"] = "loop" /\ pc'["ctl"] # "loop")
         => /\ (/\ ~manual_disconnect
                /\ since_check >= CONNECTION_CHECK_INTERVAL
                /\ ~(interface # None /\ link_ok))
                => (~is_connected' /\ pc'["ctl"] = "ar_gate")
            /\ manual_disconnect
                => (is_connected' = is_connected /\ pc'["ctl"] = "scan")]_vars

\* C17 witness: the heartbeat on a held handle has failed with the manual flag
\* clear; the bot is disconnected and the control loop is at the entry of
\* _attempt_reconnect.
C17_Witness ==
    /\ pc["ctl"] = "ar_gate"
    /\ interface # None /\ ~link_ok
    /\ ~is_connected
    /\ ~manual_disconnect
    /\ pc["cmd"] = "idle" /\ pc["lib"] = "idle"

\* C18: the backoff interval _attempt_reconnect computes from the seconds
\* elapsed since the last attempt equals min(2^min(floor(elapsed/60),10),300),
\* is never more than 300 seconds and is not smaller than the interval
\* computed from any shorter elapsed time.
C18_BackoffFormula ==
    /\ Backoff(since_attempt) = Min2(2 ^ Min2(since_attempt \div 60, 10), 300)
    /\ Backoff(since_attempt) <= 300
    /\ \A shorter \in 0..since_attempt : Backoff(shorter) <= Backoff(since_attempt)

\* C18 witness: a call made more than eleven minutes after the last attempt
\* (the exponent is capped at 10 and the interval at 300) has passed the gate.
C18_Witness ==
    /\ pc["lib"] = "ar_set"
    /\ since_attempt \div 60 > 10
    /\ Backoff(since_attempt) = 300

\* ------------------------------------------------------------------------
\* Claims about the correlation store, continued
\* ------------------------------------------------------------------------
\* the step recorded a packet and, the store being full, dropped the record
\* of mesh id mid, which was the oldest
EvictedInStep(mid) ==
    /\ rec_hist' # rec_hist
    /\ Len(msg_mapping) >= MAX_MAPPING_SIZE
    /\ Head(msg_mapping).mid = mid

\* C19: a record is never changed after it was created: as long as the
\* record of a mesh id is not evicted, a lookup by that mesh id returns the
\* same mirror message id, node id and privacy flag, also after a later packet
\* with the same mesh id has been mirrored.
C19_RecordNeverMutated ==
    [][\A mid \in MeshIds :
          (HasKey(msg_mapping, mid) /\ ~EvictedInStep(mid))
              => MappingGet(msg_mapping', mid) = MappingGet(msg_mapping, mid)]_vars

\* C20: every read and write of the store happens while the context doing it
\* holds msg_mapping_lock, so the receive callback and a chat handler are
\* never inside a store operation (insert with eviction, lookup by mesh id,
\* scan by mirror id) at the same time.
C20_StoreOpsUnderLock ==
    /\ \A c \in Contexts : st_pc[c] \in InStoreOp => msg_mapping_lock = c
    /\ ~(st_pc["mesh"] \in InStoreOp /\ st_pc["chat"] \in InStoreOp)

\* C20 witness: the receive callback is between the eviction and the
\* assignment of an insert into a full store while a chat handler waits at the
\* lock of _find_reply_info.
C20_Witness ==
    /\ st_pc["mesh"] = "ins_set"
    /\ Len(msg_mapping) = MAX_MAPPING_SIZE - 1
    /\ Len(rec_hist) >= MAX_MAPPING_SIZE
    /\ st_pc["chat"] = "lock_scan"
    /\ msg_mapping_lock = "mesh"

\* the records of the store after the step that were not in it before
NewRecords == {msg_mapping'[i] : i \in 1..Len(msg_mapping')} \ {msg_mapping[i] : i \in 1..Len(msg_mapping)}

\* C21: a record enters the store only in a step of the receive handler in
\* which the chat accepted the mirror post of the packet: the record is the
\* one of that packet's mesh id and holds the id the chat gave to that post.
\* When the post failed or was skipped no record enters the store.
C21_RecordOnlyForAcceptedMirror ==
    [][\A rec \in NewRecords :
          /\ h_op'.kind = "receive"
          /\ rec.mid = h_op'.packet.id
          /\ \E k \in 1..Len(chat_posts') :
                 /\ chat_posts'[k].kind = "mirror"
                 /\ chat_posts'[k].message_id # None
                 /\ chat_posts'[k].message_id = rec.telegram_msg_id]_vars

\* C21 witness: the chat refused the mirror post of a packet that has a mesh
\* id, and the store has no record of that id.
C21_Witness ==
    /\ h_pc = "done" /\ h_op.kind = "receive"
    /\ h_op.packet.id # None
    /\ \E k \in 1..Len(chat_posts) :
           chat_posts[k].kind = "mirror" /\ chat_posts[k].message_id = None
    /\ ~HasKey(msg_mapping, h_op.packet.id)

\* ------------------------------------------------------------------------
\* Claims about the confirmation workflow, continued
\* ------------------------------------------------------------------------
\* C22: a conversation has one slot for a staged message.  A message staged
\* while another is staged takes its place, and an accept or cancel callback
\* that carries the id of the message that was replaced sends nothing to the
\* mesh and leaves the staged message as it is.
C22_StaleCallbackLeavesSecond ==
    /\ (/\ h_pc = "done" /\ h_op.kind \in {"text", "pm"}
        /\ \E k \in 1..Len(chat_posts) :
               chat_posts[k].kind = "prompt" /\ chat_posts[k].delivered)
       => /\ pending_messages[h_op.chat].msg_id = h_op.msg_id
          /\ pending_messages[h_op.chat].replaced = h_op.pending.msg_id
    /\ (/\ h_pc = "done" /\ h_op.kind \in {"accept", "cancel"}
        /\ h_op.pending.replaced # None
        /\ h_op.msg_id = h_op.pending.replaced)
       => /\ mesh_sent = <<>>
          /\ pending_messages[h_op.chat] = h_op.pending

\* C22 witness: an accept callback with the id of a replaced message has been
\* handled while the bot was connected; the message that replaced it is staged.
C22_Witness ==
    /\ h_pc = "done" /\ h_op.kind = "accept"
    /\ h_op.pending.replaced # None
    /\ h_op.msg_id = h_op.pending.replaced
    /\ interface # None /\ is_connected
    /\ pending_messages[h_op.chat].msg_id # None
    /\ pending_messages[h_op.chat].msg_id # h_op.msg_id

\* C23: after an accept or cancel callback that matches the staged message
\* has been handled, the conversation has no staged message, whether the
\* delivery succeeded, failed part-way, the mesh was not connected or a call
\* to the chat service raised.
C23_SlotEmptyAfterMatchingCallback ==
    (/\ h_pc = "done" /\ h_op.kind \in {"accept", "cancel"}
     /\ h_op.pending.msg_id # None
     /\ h_op.pending.msg_id = h_op.msg_id)
    => pending_messages[h_op.chat] = NoPending


\* C24, as stated: every text whose accounted size is at most max_bytes, the
\* empty text included, is returned as the one-element sequence holding the
\* text itself, without a marker.
C24_WithinBudgetReturnsText ==
    (seg_pc = "done" /\ calculate_text_bytes(seg_text) <= seg_max_bytes)
        => seg_parts = <<seg_text>>

\* C24, amended: every non-empty text whose accounted size is at most
\* max_bytes is returned as the one-element sequence holding the text itself,
\* unchanged and without a marker; the empty text is returned as no chunk at
\* all (the empty sequence).
C24_NonEmptyWithinBudgetReturnsText ==
    (seg_pc = "done" /\ calculate_text_bytes(seg_text) <= seg_max_bytes)
        => seg_parts = (IF seg_text = <<>> THEN <<>> ELSE <<seg_text>>)

\* C24 witness: a text of several words whose accounted size is exactly
\* max_bytes has been split and came back as the single chunk holding it.
C24_Witness ==
    /\ seg_pc = "done"
    /\ calculate_text_bytes(seg_text) = seg_max_bytes
    /\ Len(StrSplit(seg_text)) > 1
    /\ seg_parts = <<seg_text>>

CeilDiv(a, b) == (a + b - 1) \div b
IsSingleWord(text) == text # <<>> /\ \A k \in 1..Len(text) : ~IsSpace(text[k])
effective_budget == seg_max_bytes - marker_reserve

\* C25, as stated: a text that is a single word whose accounted size exceeds
\* the effective budget max_bytes - 10 is split into exactly
\* ceil(size / effective) chunks, each of accounted size at most the
\* effective budget before its marker, whatever the mix of 1-byte and 2-byte
\* characters.
C25_SingleWordChunkCount ==
    (/\ seg_pc = "done"
     /\ IsSingleWord(seg_text)
     /\ calculate_text_bytes(seg_text) > effective_budget)
    => /\ Len(seg_parts) = CeilDiv(calculate_text_bytes(seg_text), effective_budget)
       /\ \A i \in 1..Len(seg_parts) :
              calculate_text_bytes(ChunkBody(i)) <= effective_budget

\* C25, amended: a text that is a single word whose accounted size exceeds
\* max_bytes is split into at least ceil(size / effective) chunks, each
\* non-empty and of accounted size at most the effective budget before its
\* marker; every chunk but the last is filled until the next character no
\* longer fits (so it is at most one byte short of the effective budget), and
\* the number of chunks is exactly ceil(size / effective) when every chunk
\* but the last is filled exactly, as it is for a word of 1-byte characters.
C25_SingleWordHardSplit ==
    (/\ seg_pc = "done"
     /\ IsSingleWord(seg_text)
     /\ calculate_text_bytes(seg_text) > seg_max_bytes)
    => LET n == Len(seg_parts)
           size == calculate_text_bytes(seg_text)
           exact == \A i \in 1..(n - 1) :
                        calculate_text_bytes(ChunkBody(i)) = effective_budget
       IN /\ n >= CeilDiv(size, effective_budget)
          /\ \A i \in 1..n :
                 /\ ChunkBody(i) # <<>>
                 /\ calculate_text_bytes(ChunkBody(i)) <= effective_budget
          /\ \A i \in 1..(n - 1) :
                 calculate_text_bytes(ChunkBody(i)) + CharBytes(ChunkBody(i + 1)[1])
                     > effective_budget
          /\ exact => n = CeilDiv(size, effective_budget)
          /\ (\A k \in 1..Len(seg_text) : CharBytes(seg_text[k]) = 1) => exact

\* C25 witness: a word mixing 1-byte and 2-byte characters, larger than
\* max_bytes, has been split into more chunks than ceil(size / effective),
\* one of them a byte short of the effective budget.
C25_Witness ==
    /\ seg_pc = "done"
    /\ IsSingleWord(seg_text)
    /\ calculate_text_bytes(seg_text) > seg_max_bytes
    /\ \E j, k \in 1..Len(seg_text) : CharBytes(seg_text[j]) = 1 /\ CharBytes(seg_text[k]) = 2
    /\ Len(seg_parts) > CeilDiv(calculate_text_bytes(seg_text), effective_budget)
    /\ \E i \in 1..Len(seg_parts) :
           calculate_text_bytes(ChunkBody(i)) = effective_budget - 1

EndsWith(s, suffix) ==
    /\ Len(s) >= Len(suffix)
    /\ SubSeq(s, Len(s) - Len(suffix) + 1, Len(s)) = suffix

\* C26: when the split returns N > 1 chunks, the chunk at 1-based position i
\* ends with the suffix " [i/N]" for every i in 1..N; when it returns exactly
\* one chunk, the chunk carries no marker, also when the text was larger than
\* max_bytes before its whitespace was collapsed.
C26_MarkedIffSeveralChunks ==
    seg_pc = "done" =>
        LET n == Len(seg_parts) IN
        /\ n > 1 => \A i \in 1..n : EndsWith(seg_parts[i], Marker(i, n))
        /\ n = 1 => /\ ~EndsWith(seg_parts[1], Marker(1, 1))
                    /\ \A k \in 1..Len(seg_parts[1]) : seg_parts[1][k] \in SegChars

\* C26 witness: a text larger than max_bytes only through its whitespace has
\* been split and came back as one chunk, its single word, without a marker.
C26_Witness ==
    /\ seg_pc = "done"
    /\ calculate_text_bytes(seg_text) > seg_max_bytes
    /\ Len(seg_parts) = 1
    /\ seg_parts = StrSplit(seg_text)

Bodies == [i \in 1..Len(seg_parts) |-> ChunkBody(i)]
JoinedWords == StrSplit(JoinSpace(Bodies))

RECURSIVE Flatten(_)
Flatten(seqs) == IF seqs = <<>> THEN <<>> ELSE Head(seqs) \o Flatten(Tail(seqs))

\* the first word of the text goes through the character loop
FirstWordHardSplit ==
    /\ calculate_text_bytes(seg_text) > seg_max_bytes
    /\ StrSplit(seg_text) # <<>>
    /\ calculate_text_bytes(StrSplit(seg_text)[1]) > effective_budget

\* C27, as stated: for every text and budget, stripping the [i/N] markers
\* from the chunks and joining the chunks in order with a single space gives
\* exactly the whitespace-delimited words of the text, in their order.
C27_JoinedChunksAreTheWords ==
    seg_pc = "done" => JoinedWords = StrSplit(seg_text)

\* C27, amended: stripping the markers and joining the chunks in order with a
\* single space gives the whitespace-delimited words of the text in their
\* order, except that a first word larger than the effective budget (of a text
\* larger than max_bytes) appears cut into two or more consecutive pieces
\* whose concatenation is that word; every other word appears whole.
C27_JoinedChunksAreTheWordsUpToHardSplit ==
    seg_pc = "done" =>
        LET words == StrSplit(seg_text) IN
        IF FirstWordHardSplit
        THEN \E k \in 2..Len(JoinedWords) :
                 /\ Flatten(SubSeq(JoinedWords, 1, k)) = words[1]
                 /\ SubSeq(JoinedWords, k + 1, Len(JoinedWords)) = Tail(words)
        ELSE JoinedWords = words

\* C27 witness: a text larger than max_bytes whose first word is larger than
\* the effective budget and is followed by another word has been split into
\* several chunks.
C27_Witness ==
    /\ seg_pc = "done"
    /\ FirstWordHardSplit
    /\ Len(StrSplit(seg_text)) >= 2
    /\ Len(seg_parts) > 2

\* ------------------------------------------------------------------------
\* Claims about the auto-reply's template, size and addressing
\* ------------------------------------------------------------------------
\* the reply texts the handler produced: what it transmitted on the mesh and
\* what it posted to chat (without the mark of a filtered reply)
AutoReplyTexts ==
    {mesh_sent[i].text : i \in AutoReplySends}
    \cup {IF IsPrefix(FILTERED, chat_posts[i].reply_text)
          THEN SubSeq(chat_posts[i].reply_text, Len(FILTERED) + 1,
                      Len(chat_posts[i].reply_text))
          ELSE chat_posts[i].reply_text : i \in AutoReplyPosts}
SenderShortName == get_node_info(h_op.packet.from).short_name
HopsTemplateStart ==
    SenderShortName \o <<" ">> \o IntToStr(PacketHopCount) \o <<" ", "h", "o", "p", "s">>
SignalTemplateStart == SenderShortName \o <<" ", "S", "N", "R", ":", " ">>

\* C28: the auto-reply made for a handled packet is the hop-count template
\* ("<name> <hopStart - hopLimit> hops ...") exactly when the packet has both
\* hopStart and hopLimit and hopStart - hopLimit > 0; in every other case (a
\* difference of zero or less, or either field absent) it is the SNR/RSSI
\* signal template ("<name> SNR: ...").
C28_HopsTemplateIffPositiveHopCount ==
    Handled =>
        \A reply \in AutoReplyTexts :
            IF PacketHasHopCount /\ PacketHopCount > 0
            THEN IsPrefix(HopsTemplateStart, reply) /\ ~IsPrefix(SignalTemplateStart, reply)
            ELSE IsPrefix(SignalTemplateStart, reply)
                 /\ \A k \in 1..(Len(reply) - 3) : SubSeq(reply, k, k + 3) # <<"h", "o", "p", "s">>

\* C28 witness: a packet with hopStart - hopLimit = MaxHop has been handled
\* and the reply transmitted on the mesh is the hop-count template naming
\* that many hops.
C28_Witness ==
    /\ Handled
    /\ PacketHasHopCount /\ PacketHopCount = MaxHop
    /\ \E i \in AutoReplySends : IsPrefix(HopsTemplateStart, mesh_sent[i].text)

\* C29: every auto-reply goes through the segmenter before it is transmitted:
\* what the handler transmits for the reply are the chunks of
\* _split_text_by_bytes(reply, MAX_BYTES_PER_MESSAGE), so no transmission
\* made for an auto-reply exceeds MAX_BYTES_PER_MESSAGE accounted bytes,
\* whatever the lengths of the sender's name, the relay's name and the suffix.
C29_AutoReplyWithinBudget ==
    Handled =>
        \A i \in AutoReplySends :
            calculate_text_bytes(mesh_sent[i].text) <= MAX_BYTES_PER_MESSAGE

\* C30: every auto-reply transmitted on the mesh for a handled packet carries
\* that packet's mesh message id as its reply reference and is sent on that
\* packet's channel (neither is set when the packet has none).
C30_AutoReplyRefersToTrigger ==
    Handled =>
        \A i \in AutoReplySends :
            /\ mesh_sent[i].replyId = h_op.packet.id
            /\ mesh_sent[i].channel = h_op.packet.channel

\* C30 witness: a packet with a mesh id, heard on a named channel and itself
\* not a reply, has been handled and its auto-reply was transmitted with the
\* packet's id as reply reference on the packet's channel.
C30_Witness ==
    /\ Handled
    /\ h_op.packet.id # None /\ h_op.packet.channel # None
    /\ h_op.packet.replyId = None
    /\ \E i \in AutoReplySends :
           /\ mesh_sent[i].replyId = h_op.packet.id
           /\ mesh_sent[i].channel = h_op.packet.channel

\* ------------------------------------------------------------------------
\* Claims about the side effects of one handled packet
\* ------------------------------------------------------------------------
PassesGates(packet) ==
    /\ has_keywords(packet.text)
    /\ \/ packet.to = BROADCAST_NUM
       \/ StrLower(get_node_info(packet.from).short_name) \in private_node_names
HopSuppressed(packet) ==
    /\ packet.to = BROADCAST_NUM
    /\ packet.hopStart # NoHop /\ packet.hopLimit # NoHop
    /\ hop_filter_min # NoHop /\ hop_filter_max # NoHop
    /\ hop_filter_min <= packet.hopStart - packet.hopLimit
    /\ packet.hopStart - packet.hopLimit <= hop_filter_max
\* the step in which the receive handler runs for a packet
ReceiveStep == h_pc = "idle" /\ h_pc' = "done" /\ h_op'.kind = "receive"
SendCalls(sent) == Cardinality({i \in 1..Len(sent) : sent[i].origin = "auto_reply"})
ReplyPosts(posts) == Cardinality({i \in 1..Len(posts) : posts[i].kind = "auto_reply"})

\* C31, as stated: the handler of every inbound packet that passes the
\* keyword gate and the privacy gate makes exactly one transmission of the
\* reply on the mesh (none when the reply is hop-range suppressed) and exactly
\* one chat post of that reply.
C31_OneSendOnePostPerTrigger ==
    [][(ReceiveStep /\ PassesGates(h_op'.packet)) =>
           /\ SendCalls(mesh_sent') = (IF HopSuppressed(h_op'.packet) THEN 0 ELSE 1)
           /\ ReplyPosts(chat_posts') = 1]_vars

\* C31, amended: the handler of every inbound packet that passes the keyword
\* gate and the privacy gate while the bridge is connected makes exactly one
\* sendText call with the reply (none when the reply is hop-range suppressed)
\* and, when a chat conversation is configured, exactly one attempt to post
\* that reply to chat (none when no conversation is configured); while the
\* bridge is not connected it makes neither; a packet that fails a gate
\* causes neither.
C31_OneSendOnePostWhenConnected ==
    [][ReceiveStep =>
           IF PassesGates(h_op'.packet) /\ is_connected /\ interface # None
           THEN /\ SendCalls(mesh_sent') = (IF HopSuppressed(h_op'.packet) THEN 0 ELSE 1)
                /\ ReplyPosts(chat_posts') = (IF telegram_chat_id # None THEN 1 ELSE 0)
           ELSE SendCalls(mesh_sent') = 0 /\ ReplyPosts(chat_posts') = 0]_vars

\* C31 witness: a keyword packet from an allowed private sender has been
\* handled; its reply was transmitted once, the transmission failed, and the
\* reply was still posted to chat once.
C31_Witness ==
    /\ Handled /\ PassesGates(h_op.packet)
    /\ h_op.packet.to # BROADCAST_NUM
    /\ SendCalls(mesh_sent) = 1 /\ ReplyPosts(chat_posts) = 1
    /\ \E i \in 1..Len(mesh_sent) : ~mesh_sent[i].ok

\* ------------------------------------------------------------------------
\* Claims about the multi-part transmission of an accepted message
\* ------------------------------------------------------------------------
AcceptSent ==
    /\ h_pc = "done" /\ h_op.kind = "accept"
    /\ h_op.pending.msg_id # None /\ h_op.pending.msg_id = h_op.msg_id
    /\ \E k \in 1..Len(chat_posts) : chat_posts[k].notice \in {"sent", "error"}

\* C32: when an accepted message is transmitted in parts, the sendText calls
\* made are parts 1, 2, ... of the split text in that order; a call that
\* fails is the last call made (no later part is sent); and the handler
\* reports success ("sent") only if all N parts were sent, each call
\* succeeding.
C32_PartsInOrderAbortOnFailure ==
    AcceptSent =>
        /\ Len(mesh_sent) <= Len(StagedChunks)
        /\ \A i \in 1..Len(mesh_sent) :
               /\ mesh_sent[i].text = StagedChunks[i]
               /\ ~mesh_sent[i].ok => i = Len(mesh_sent)
        /\ \A k \in 1..Len(chat_posts) :
               chat_posts[k].notice = "sent" =>
                   /\ Len(mesh_sent) = Len(StagedChunks)
                   /\ \A i \in 1..Len(mesh_sent) : mesh_sent[i].ok

\* C32 witness: an accepted text of several parts was being transmitted, the
\* send of its second part failed, no further part went out and the handler
\* reported an error.
C32_Witness ==
    /\ AcceptSent
    /\ Len(StagedChunks) > 2
    /\ Len(mesh_sent) = 2
    /\ mesh_sent[1].ok /\ ~mesh_sent[2].ok
    /\ \E k \in 1..Len(chat_posts) : chat_posts[k].notice = "error"

\* ------------------------------------------------------------------------
\* Claims about chat delivery with retry
\* ------------------------------------------------------------------------
RetryDone == retry_result.result # "running"
DetectedTimeout(outcome) == Caught(outcome) /\ outcome.timeout_text

\* C33: one chat delivery with retry calls the chat client at most 3 times;
\* every call but the last ended in an error detected as a timeout, and the
\* delivery waited 5 s after the first such failure and 10 s after the second;
\* the call returns when a call of the client succeeded, and raises the
\* client's error when a call failed with an error that is not a detected
\* timeout or when the third call failed.
C33_RetryOnlyOnTimeoutAtMostThrice ==
    RetryDone =>
        LET n == retry_result.calls
            last == retry_outcomes[n]
        IN /\ n \in 1..3
           /\ \A k \in 1..(n - 1) : DetectedTimeout(retry_outcomes[k])
           /\ retry_result.waits = [k \in 1..(n - 1) |-> 5 * k]
           /\ (last.class = "ok") => retry_result.result = "returned"
           /\ (last.class # "ok") =>
                 /\ retry_result.result = "raised"
                 /\ retry_result.error = last
                 /\ ~DetectedTimeout(last) \/ n = 3

\* C33 witness: three calls of the chat client timed out; the delivery waited
\* 5 s and 10 s between them and raised the third timeout, leaving a fourth
\* call, which would have succeeded, unmade.
C33_Witness ==
    /\ RetryDone
    /\ retry_result.calls = 3
    /\ retry_result.waits = <<5, 10>>
    /\ retry_result.result = "raised"
    /\ DetectedTimeout(retry_result.error)
    /\ retry_outcomes[4].class = "ok"

\* ------------------------------------------------------------------------
\* Claims about errors raised while an event is handled
\* ------------------------------------------------------------------------
\* C34: an error raised by the mesh client or the chat client while one
\* inbound packet or one chat update (a message, a command, a callback) is
\* handled never leaves the handler that was running.
C34_NoErrorEscapesHandler ==
    h_pc = "done" => ~h_op.escaped

\* C35: a staged chat message is delivered to the mesh at most once: an
\* accept callback for message id k that arrives after an earlier accept for
\* k has transmitted the message transmits nothing, also when the chat client
\* raised while the earlier accept edited its prompt.
C35_DeliveredAtMostOnce ==
    (/\ h_pc = "done" /\ h_op.kind = "accept"
     /\ h_op.pending.msg_id = h_op.msg_id
     /\ h_op.pending.transmitted)
    => mesh_sent = <<>>

\* ------------------------------------------------------------------------
\* Claims about the addressing of replies to private messages
\* ------------------------------------------------------------------------
\* C36: text sent in response to a private mesh message is a unicast to the
\* node id of that message's sender and never a broadcast: every auto-reply
\* transmitted for a handled private packet, and every part transmitted for an
\* accepted chat reply to the chat mirror of a private message whose record
\* was in the store when the reply was staged, has a destination, also when
\* the sender's node id could not be resolved from the node table.
C36_PrivateReplyIsUnicast ==
    /\ (Handled /\ h_op.packet.to # BROADCAST_NUM) =>
           \A i \in AutoReplySends :
               /\ mesh_sent[i].destinationId # None
               /\ mesh_sent[i].destinationId = get_node_info(h_op.packet.from).node_id
    /\ (/\ h_pc = "done" /\ h_op.kind = "accept"
        /\ h_op.pending.msg_id = h_op.msg_id
        /\ h_op.pending.origin = "text"
        /\ h_op.pending.reply_to # None) =>
           \A k \in 1..Len(h_op.pending.mapping_at_staging) :
               (/\ h_op.pending.mapping_at_staging[k].telegram_msg_id = h_op.pending.reply_to
                /\ h_op.pending.mapping_at_staging[k].is_private) =>
                   \A i \in 1..Len(mesh_sent) :
                       /\ mesh_sent[i].destinationId # None
                       /\ mesh_sent[i].destinationId = h_op.pending.mapping_at_staging[k].node_id

ChatStep == h_pc = "idle" /\ h_pc' = "done" /\ h_op'.kind \in {"text", "pm", "accept", "cancel"}
\* the handler staged a confirmation: some conversation's slot holds a
\* message id it did not hold before
StagedByStep ==
    \E c \in Chats : pending_messages'[c].msg_id # None /\ pending_messages'[c].msg_id # pending_messages[c].msg_id
\* C38: an update from a conversation other than the configured one (every
\* conversation, while none is configured) never changes the connection state
\* or the manual-disconnect flag, never stages a confirmation and never
\* causes a mesh transmission.
C38_OnlyConfiguredChatChangesBridge ==
    [][(ChatStep /\ h_op'.chat # telegram_chat_id) =>
          /\ is_connected' = is_connected
          /\ manual_disconnect' = manual_disconnect
          /\ ~StagedByStep
          /\ mesh_sent' = <<>>]_vars

\* ---- C39
\* the posts of the handled packet's own mirror that chat accepted
MirrorPosts == {j \in 1..Len(chat_posts) : chat_posts[j].kind = "mirror" /\ chat_posts[j].message_id # None}
\* post i follows a delivered mirror of the packet, the store holds the
\* packet's record with that mirror's chat message id, and post i is a chat
\* reply to it
RepliesToOwnMirror(i) ==
    \E j \in MirrorPosts :
        /\ j < i
        /\ HasKey(msg_mapping, h_op.packet.id)
        /\ MappingGet(msg_mapping, h_op.packet.id).telegram_msg_id = chat_posts[j].message_id
        /\ chat_posts[i].reply_to = chat_posts[j].message_id
\* C39, as stated: when the triggering packet is itself mirrored to chat, its
\* mirror is posted and its record stored before the auto-reply's mirror is
\* posted, and the auto-reply's mirror is a chat reply to the packet's mirror.
C39_AutoReplyMirrorRepliesToPacketMirror ==
    (Handled /\ MirrorPosts # {}) => \A i \in AutoReplyPosts : RepliesToOwnMirror(i)

\* C39, amended: the same for a triggering packet that carries a packet id;
\* for a mirrored packet without an id no record is stored, and the
\* auto-reply's mirror is posted after the packet's mirror as a plain chat
\* message.
C39_AutoReplyMirrorRepliesWhenPacketHasId ==
    (Handled /\ MirrorPosts # {}) =>
        \A i \in AutoReplyPosts :
            IF h_op.packet.id # None
            THEN RepliesToOwnMirror(i)
            ELSE /\ \E j \in MirrorPosts : j < i
                 /\ chat_posts[i].reply_to = None
                 /\ ~HasKey(msg_mapping, h_op.packet.id)
C39_Witness ==
    /\ Handled /\ h_op.packet.id # None
    /\ \E i \in AutoReplyPosts : chat_posts[i].message_id # None /\ RepliesToOwnMirror(i)
    /\ h_op.packet.to # BROADCAST_NUM

\* ---- C40
\* the /pm handler has run for this update
PmStep(message) == \E save_ok \in BOOLEAN, error_reply_ok \in BOOLEAN : HandlePmCommand(message, save_ok, save_ok, error_reply_ok)
\* a well-formed /pm command whose node name the node directory does not hold
PmUnknownNode(message) ==
    LET parts == SplitMax2(message.text)
    IN Len(parts) >= 3 /\ StrLower(parts[2]) \notin DOMAIN node_map
\* C40: a /pm command naming a node that is not in the node directory stages
\* no confirmation, transmits nothing and leaves the private-node allow-list
\* as it was.
C40_UnknownNodePmChangesNothing ==
    [][\A message \in Messages(PmTexts) :
           (PmStep(message) /\ PmUnknownNode(message)) =>
               /\ pending_messages' = pending_messages
               /\ mesh_sent' = <<>>
               /\ private_node_names' = private_node_names]_vars
====
